---- MODULE Spec2Model ----
(***************************************************************************)
(* A model of the header/authentication/routing extraction of the EML      *)
(* analyser (src/src/lib/parser.ts).                                       *)
(*                                                                         *)
(* Strings are sequences of one-character strings, so that the regular     *)
(* expressions of the parser are modelled character by character: what a   *)
(* pattern matches inside a longer word, what a greedy class captures and  *)
(* what toLowerCase changes are all computed, not assumed.  An optional    *)
(* value (a field that may be undefined) is None or Some(v).               *)
(***************************************************************************)
EXTENDS Integers, Sequences, FiniteSets, TLC

None == <<>>

Some(v) == <<v>>

IsSome(o) == Len(o) = 1

Get(o) == o[1]

----------------------------------------------------------------------------
(* Characters and character classes of JavaScript regular expressions.     *)

LowerLetters ==
  <<"a","b","c","d","e","f","g","h","i","j","k","l","m",
    "n","o","p","q","r","s","t","u","v","w","x","y","z">>

UpperLetters ==
  <<"A","B","C","D","E","F","G","H","I","J","K","L","M",
    "N","O","P","Q","R","S","T","U","V","W","X","Y","Z">>

DigitChars == {"0","1","2","3","4","5","6","7","8","9"}

UpperChars == {UpperLetters[k] : k \in DOMAIN UpperLetters}

LowerChars == {LowerLetters[k] : k \in DOMAIN LowerLetters}

\* the lower-case letter of each upper-case letter
LowerOf ==
  [c \in UpperChars |->
     LowerLetters[CHOOSE k \in DOMAIN UpperLetters : UpperLetters[k] = c]]

WordChars == LowerChars \cup UpperChars \cup DigitChars \cup {"_"}

SpaceChars == {" ", "\t", "\n", "\r"}

\* String.prototype.toLowerCase on one character
charToLower(c) == IF c \in UpperChars THEN LowerOf[c] ELSE c

\* String.prototype.toLowerCase
toLowerCase(s) == [i \in 1..Len(s) |-> charToLower(s[i])]

(* A character class is [neg, chars]: the characters of chars, or with neg *)
(* all the others.                                                         *)

\* \w
Word == [neg |-> FALSE, chars |-> WordChars]

\* \s
Space == [neg |-> FALSE, chars |-> SpaceChars]

\* . (all but the line terminators)
Dot == [neg |-> TRUE, chars |-> {"\n", "\r"}]

\* [^)]
NotRParen == [neg |-> TRUE, chars |-> {")"}]

\* [^\s;]
NotSpaceSemi == [neg |-> TRUE, chars |-> SpaceChars \cup {";"}]

\* [^\s;@]
NotSpaceSemiAt == [neg |-> TRUE, chars |-> SpaceChars \cup {";", "@"}]

\* [^\s(]
NotSpaceLParen == [neg |-> TRUE, chars |-> SpaceChars \cup {"("}]

\* a character is of a class
In(c, class) == (c \in class.chars) # class.neg

----------------------------------------------------------------------------
(* Regular-expression machinery: leftmost match, greedy classes.           *)

\* a literal of a /i pattern (given in lower case) matches s at position p
MatchLit(s, p, lit) ==
  /\ p >= 1
  /\ p + Len(lit) - 1 <= Len(s)
  /\ \A k \in 1..Len(lit) : charToLower(s[p + k - 1]) = lit[k]

\* the position after the longest run of characters of a class from p on
RunEnd(s, p, class) ==
  CHOOSE e \in p..(Len(s) + 1) :
    /\ \A k \in p..(e - 1) : In(s[k], class)
    /\ (e = Len(s) + 1 \/ ~In(s[e], class))

\* the leftmost of the positions at which a pattern matches, 0 without one
Leftmost(ps) == IF ps = {} THEN 0 ELSE CHOOSE p \in ps : \A q \in ps : p <= q

\* /lit(C+)/i for a class C: the capture of the leftmost match, None
\* without a match
CaptureAfterLit(s, lit, class) ==
  LET p0 == Leftmost({p \in 1..Len(s) :
                        /\ MatchLit(s, p, lit)
                        /\ p + Len(lit) <= Len(s)
                        /\ In(s[p + Len(lit)], class)})
  IN  IF p0 = 0 THEN None
      ELSE Some(SubSeq(s, p0 + Len(lit), RunEnd(s, p0 + Len(lit), class) - 1))

\* /lit\s+(C+)/i, for a class C without white space
CaptureAfterLitSpaces(s, lit, class) ==
  LET Start(p) == RunEnd(s, p + Len(lit), Space)
      p0 == Leftmost({p \in 1..Len(s) :
                        /\ MatchLit(s, p, lit)
                        /\ Start(p) > p + Len(lit)
                        /\ Start(p) <= Len(s)
                        /\ In(s[Start(p)], class)})
  IN  IF p0 = 0 THEN None
      ELSE Some(SubSeq(s, Start(p0), RunEnd(s, Start(p0), class) - 1))

\* String.prototype.trim
trim(s) ==
  LET keep == {i \in 1..Len(s) : ~In(s[i], Space)}
  IN  IF keep = {} THEN <<>>
      ELSE SubSeq(s, CHOOSE i \in keep : \A j \in keep : i <= j,
                     CHOOSE i \in keep : \A j \in keep : i >= j)

----------------------------------------------------------------------------
(* String constants of the parser.                                         *)

\* the methods
M_spf == <<"s","p","f">>

M_dkim == <<"d","k","i","m">>

M_dmarc == <<"d","m","a","r","c">>

M_arc == <<"a","r","c">>

\* the results
R_pass == <<"p","a","s","s">>

R_fail == <<"f","a","i","l">>

R_softfail == <<"s","o","f","t","f","a","i","l">>

R_neutral == <<"n","e","u","t","r","a","l">>

R_none == <<"n","o","n","e">>

R_temperror == <<"t","e","m","p","e","r","r","o","r">>

R_permerror == <<"p","e","r","m","e","r","r","o","r">>

R_unknown == <<"u","n","k","n","o","w","n">>

\* the header keys the parser looks up
K_authentication_results == <<"a","u","t","h","e","n","t","i","c","a","t","i","o","n","-","r","e","s","u","l","t","s">>

K_received_spf == <<"r","e","c","e","i","v","e","d","-","s","p","f">>

K_dkim_signature == <<"d","k","i","m","-","s","i","g","n","a","t","u","r","e">>

K_arc_seal == <<"a","r","c","-","s","e","a","l">>

K_received == <<"r","e","c","e","i","v","e","d">>

----------------------------------------------------------------------------
(* Header lookup.  A header is [key |-> string, value |-> string].         *)

\* the mutant of findAllHeaders that compares the keys as written
findAllHeaders_CaseSensitive(headers, key) ==
  LET m == SelectSeq(headers, LAMBDA h : h.key = key)
  IN  [i \in 1..Len(m) |-> m[i].value]

findAllHeaders(headers, key) ==
  LET m == SelectSeq(headers, LAMBDA h : toLowerCase(h.key) = toLowerCase(key))
  IN  [i \in 1..Len(m) |-> m[i].value]

\* Array.prototype.find, then header?.value
findHeader(headers, key) ==
  LET Hit(i) == toLowerCase(headers[i].key) = toLowerCase(key)
      i0 == Leftmost({i \in DOMAIN headers : Hit(i)})
  IN  IF i0 = 0 THEN None ELSE Some(headers[i0].value)

----------------------------------------------------------------------------
(* Authentication verdicts.  An AuthenticationResult is                    *)
(* [method, result, domain, selector, rawHeader]; domain and selector are  *)
(* optional.  Its details text is not modelled: nothing reads it but the   *)
(* description of a warning.                                               *)

validResults ==
  <<R_pass, R_fail, R_softfail, R_neutral, R_none, R_temperror, R_permerror>>

\* the values of AuthenticationResult['result']
ResultValues ==
  {R_pass, R_fail, R_softfail, R_neutral, R_none, R_temperror, R_permerror, R_unknown}

\* the mutant of normalizeResult that keeps a token it does not recognise
normalizeResult_KeepsRaw(result) == toLowerCase(result)

normalizeResult(result) ==
  LET normalized == toLowerCase(result)
  IN  IF \E k \in DOMAIN validResults : validResults[k] = normalized
      THEN normalized
      ELSE R_unknown

\* /header\.[di]=@?([^\s;@]+)/i for dkim, undefined for the other methods
extractDomainFromDetails(header, method) ==
  LET Cap(p) == IF p + 9 <= Len(header) /\ header[p + 9] = "@"
                     /\ p + 10 <= Len(header) /\ In(header[p + 10], NotSpaceSemiAt)
                THEN p + 10
                ELSE IF p + 9 <= Len(header) /\ In(header[p + 9], NotSpaceSemiAt)
                     THEN p + 9
                     ELSE 0
      At(p) == /\ MatchLit(header, p, <<"h","e","a","d","e","r",".">>)
               /\ p + 8 <= Len(header)
               /\ charToLower(header[p + 7]) \in {"d", "i"}
               /\ header[p + 8] = "="
               /\ Cap(p) # 0
      p0 == Leftmost({p \in DOMAIN header : At(p)})
  IN  IF method = M_dkim /\ p0 # 0
      THEN Some(SubSeq(header, Cap(p0), RunEnd(header, Cap(p0), NotSpaceSemiAt) - 1))
      ELSE None

\* (?:\s+\(([^)]+)\))? tried at q: the position after the group, q when it
\* does not take part in the match
CommentGroupEnd(header, q) ==
  LET w == RunEnd(header, q, Space)
      c == RunEnd(header, w + 1, NotRParen)
  IN  IF w > q /\ w <= Len(header) /\ header[w] = "("
         /\ c > w + 1 /\ c <= Len(header)
      THEN c + 1
      ELSE q

\* (?:\s+header\.[di]=([^\s;]+))? tried at q: its capture, None when the
\* group does not take part in the match
HeaderGroupCapture(header, q) ==
  LET w == RunEnd(header, q, Space)
  IN  IF /\ w > q
         /\ MatchLit(header, w, <<"h","e","a","d","e","r",".">>)
         /\ w + 9 <= Len(header)
         /\ charToLower(header[w + 7]) \in {"d", "i"}
         /\ header[w + 8] = "="
         /\ In(header[w + 9], NotSpaceSemi)
      THEN Some(SubSeq(header, w + 9, RunEnd(header, w + 9, NotSpaceSemi) - 1))
      ELSE None

\* the leftmost match of /<method>=(\w+).../i, 0 without one
MethodTokenPos(header, method) ==
  LET lit == method \o <<"=">>
      At(p) == /\ MatchLit(header, p, lit)
               /\ p + Len(lit) <= Len(header)
               /\ In(header[p + Len(lit)], Word)
  IN  Leftmost({p \in DOMAIN header : At(p)})

\* one round of the loop over the four patterns: the entries it pushes
AuthPatternEntries(header, method) ==
  LET p0 == MethodTokenPos(header, method)
      t0 == p0 + Len(method) + 1
      t1 == RunEnd(header, t0, Word)
      m3 == IF method = M_dkim
            THEN HeaderGroupCapture(header, CommentGroupEnd(header, t1))
            ELSE None
  IN  IF p0 = 0 THEN <<>>
      ELSE << [method    |-> method,
               result    |-> normalizeResult(SubSeq(header, t0, t1 - 1)),
               domain    |-> IF IsSome(m3) THEN m3
                             ELSE extractDomainFromDetails(header, method),
               selector  |-> None,
               rawHeader |-> header] >>

parseAuthenticationResultsHeader(header) ==
  AuthPatternEntries(header, M_spf) \o AuthPatternEntries(header, M_dkim)
    \o AuthPatternEntries(header, M_dmarc) \o AuthPatternEntries(header, M_arc)

\* null is None
parseSpfHeader(header) ==
  LET domainMatch ==
        IF IsSome(CaptureAfterLit(header, <<"e","n","v","e","l","o","p","e","-","f","r","o","m","=">>, NotSpaceSemi))
        THEN CaptureAfterLit(header, <<"e","n","v","e","l","o","p","e","-","f","r","o","m","=">>, NotSpaceSemi)
        ELSE IF IsSome(CaptureAfterLit(header, <<"i","d","e","n","t","i","t","y","=">>, NotSpaceSemi))
             THEN CaptureAfterLit(header, <<"i","d","e","n","t","i","t","y","=">>, NotSpaceSemi)
             ELSE CaptureAfterLit(header, <<"s","e","n","d","e","r"," ">>, NotSpaceSemi)
  IN  IF Len(header) = 0 \/ ~In(header[1], Word) THEN None
      ELSE Some([method    |-> M_spf,
                 result    |-> normalizeResult(
                                 SubSeq(header, 1, RunEnd(header, 1, Word) - 1)),
                 domain    |-> domainMatch,
                 selector  |-> None,
                 rawHeader |-> header])

\* the mutant of parseDkimSignatureHeader that takes a signature for a
\* verified one
parseDkimSignatureHeader_TakesForVerified(header) ==
  Some([method    |-> M_dkim,
        result    |-> R_pass,
        domain    |-> CaptureAfterLit(header, <<"d","=">>, NotSpaceSemi),
        selector  |-> CaptureAfterLit(header, <<"s","=">>, NotSpaceSemi),
        rawHeader |-> header])

parseDkimSignatureHeader(header) ==
  Some([method    |-> M_dkim,
        result    |-> R_unknown,
        domain    |-> CaptureAfterLit(header, <<"d","=">>, NotSpaceSemi),
        selector  |-> CaptureAfterLit(header, <<"s","=">>, NotSpaceSemi),
        rawHeader |-> header])

parseArcHeader(header) ==
  LET cvMatch == CaptureAfterLit(header, <<"c","v","=">>, Word)
  IN  Some([method    |-> M_arc,
            result    |-> IF IsSome(cvMatch) THEN normalizeResult(Get(cvMatch))
                          ELSE R_unknown,
            domain    |-> CaptureAfterLit(header, <<"d","=">>, NotSpaceSemi),
            selector  |-> None,
            rawHeader |-> header])

\* `${result.method}-${result.domain || 'unknown'}`
authKey(result) ==
  result.method \o <<"-">>
    \o (IF IsSome(result.domain) /\ Get(result.domain) # <<>>
        THEN Get(result.domain) ELSE R_unknown)

\* the mutant of the loop body that keeps the first entry of a key whatever
\* its result
dedupStep_KeepsFirst(byMethod, result) ==
  IF \E i \in DOMAIN byMethod : byMethod[i].key = authKey(result)
  THEN byMethod
  ELSE Append(byMethod, [key |-> authKey(result), value |-> result])

\* the body of the loop: byMethod is the Map, in insertion order
dedupStep(byMethod, result) ==
  LET key == authKey(result)
      at  == {i \in DOMAIN byMethod : byMethod[i].key = key}
      i0  == CHOOSE i \in at : TRUE
  IN  IF at = {}
      THEN Append(byMethod, [key |-> key, value |-> result])
      ELSE IF byMethod[i0].value.result = R_unknown /\ result.result # R_unknown
           THEN [byMethod EXCEPT ![i0].value = result]
           ELSE byMethod

RECURSIVE dedupLoop(_, _)
dedupLoop(byMethod, results) ==
  IF results = <<>> THEN byMethod
  ELSE dedupLoop(dedupStep(byMethod, Head(results)), Tail(results))

deduplicateAuthResults(results) ==
  LET byMethod == dedupLoop(<<>>, results)
  IN  [i \in 1..Len(byMethod) |-> byMethod[i].value]

RECURSIVE Flatten(_)
\* results.push(...) over a list of lists
Flatten(lists) ==
  IF lists = <<>> THEN <<>> ELSE Head(lists) \o Flatten(Tail(lists))

\* parseAuthenticationHeaders up to its last line: the list handed to
\* deduplicateAuthResults
collectAuthResults(headers) ==
  LET authResults == findAllHeaders(headers, K_authentication_results)
      spfResults  == findAllHeaders(headers, K_received_spf)
      dkimSigs    == findAllHeaders(headers, K_dkim_signature)
      arcSeals    == findAllHeaders(headers, K_arc_seal)
  IN  Flatten([i \in 1..Len(authResults) |->
                 parseAuthenticationResultsHeader(authResults[i])])
        \o Flatten([i \in 1..Len(spfResults) |-> parseSpfHeader(spfResults[i])])
        \o Flatten([i \in 1..Len(dkimSigs) |-> parseDkimSignatureHeader(dkimSigs[i])])
        \o Flatten([i \in 1..Len(arcSeals) |-> parseArcHeader(arcSeals[i])])

parseAuthenticationHeaders(headers) ==
  deduplicateAuthResults(collectAuthResults(headers))

----------------------------------------------------------------------------
(* The routing chain.  A ReceivedHop is                                    *)
(* [from, by, with, timestamp, delay, rawHeader]; all but rawHeader are    *)
(* optional.  A timestamp is Date.getTime(), in milliseconds.              *)

DigitSeq == <<"0","1","2","3","4","5","6","7","8","9">>

DigitVal(c) == (CHOOSE k \in DOMAIN DigitSeq : DigitSeq[k] = c) - 1

\* new Date(text).getTime(), None for NaN.  ECMAScript fixes the result for
\* the ISO format only; the model reads its date-only form YYYY-MM-DD, for
\* the days of January 1970 whose milliseconds fit the model's integers,
\* and takes any other text for an invalid date.
DateParse(text) ==
  IF /\ Len(text) = 10
     /\ SubSeq(text, 1, 8) = <<"1","9","7","0","-","0","1","-">>
     /\ text[9] \in DigitChars /\ text[10] \in DigitChars
     /\ 10 * DigitVal(text[9]) + DigitVal(text[10]) \in 1..24
  THEN Some((10 * DigitVal(text[9]) + DigitVal(text[10]) - 1) * 86400000)
  ELSE None

\* /;\s*(.+)$/ : the capture of the leftmost match
timestampMatch(header) ==
  LET n == Len(header)
      Cap(p) ==
        LET q == RunEnd(header, p + 1, Space)
        IN  IF q <= n
            THEN IF \A k \in q..n : In(header[k], Dot)
                 THEN Some(SubSeq(header, q, n)) ELSE None
            ELSE IF q - 1 > p /\ In(header[n], Dot)
                 THEN Some(<<header[n]>>) ELSE None
      At(p) == header[p] = ";" /\ IsSome(Cap(p))
      p0 == Leftmost({p \in DOMAIN header : At(p)})
  IN  IF p0 = 0 THEN None ELSE Cap(p0)

parseReceivedHeader(header) ==
  [from      |-> CaptureAfterLitSpaces(header, <<"f","r","o","m">>, NotSpaceLParen),
   by        |-> CaptureAfterLitSpaces(header, <<"b","y">>, NotSpaceLParen),
   with      |-> CaptureAfterLitSpaces(header, <<"w","i","t","h">>, Word),
   timestamp |-> IF IsSome(timestampMatch(header))
                 THEN DateParse(trim(Get(timestampMatch(header))))
                 ELSE None,
   delay     |-> None,
   rawHeader |-> header]

\* the mutant of the delay loop that clamps a negative delay to zero
withDelays_Clamped(hops) ==
  [i \in 1..Len(hops) |->
     IF i < Len(hops) /\ IsSome(hops[i].timestamp) /\ IsSome(hops[i + 1].timestamp)
     THEN [hops[i] EXCEPT !.delay =
             Some(IF Get(hops[i].timestamp) < Get(hops[i + 1].timestamp) THEN 0
                  ELSE Get(hops[i].timestamp) - Get(hops[i + 1].timestamp))]
     ELSE hops[i]]

\* the loop that calculates the delays between hops
withDelays(hops) ==
  [i \in 1..Len(hops) |->
     IF i < Len(hops) /\ IsSome(hops[i].timestamp) /\ IsSome(hops[i + 1].timestamp)
     THEN [hops[i] EXCEPT !.delay =
             Some(Get(hops[i].timestamp) - Get(hops[i + 1].timestamp))]
     ELSE hops[i]]

\* the mutant of parseReceivedChain that drops a hop without a sender
parseReceivedChain_DropsEmpty(headers) ==
  LET receivedHeaders == findAllHeaders(headers, K_received)
      all == [i \in 1..Len(receivedHeaders) |-> parseReceivedHeader(receivedHeaders[i])]
  IN  withDelays(SelectSeq(all, LAMBDA h : IsSome(h.from) \/ IsSome(h.by)))

parseReceivedChain(headers) ==
  LET receivedHeaders == findAllHeaders(headers, K_received)
  IN  withDelays([i \in 1..Len(receivedHeaders) |->
                    parseReceivedHeader(receivedHeaders[i])])

----------------------------------------------------------------------------
(* Addresses.  A field of the decoded message that holds addresses is      *)
(* [kind |-> "absent"], [kind |-> "string", value], [kind |-> "object",    *)
(* name, address] with both optional, or [kind |-> "list", items] of       *)
(* strings and objects.  An EmailAddress is [name, address], name          *)
(* optional.                                                               *)

AbsentField == [kind |-> "absent"]

StringField(s) == [kind |-> "string", value |-> s]

ObjectField(n, a) == [kind |-> "object", name |-> n, address |-> a]

ListField(items) == [kind |-> "list", items |-> items]

\* undefined is None
parseAddress(addr) ==
  IF addr.kind = "string"
  THEN Some([name |-> None, address |-> addr.value])
  ELSE IF IsSome(addr.address) /\ Get(addr.address) # <<>>
       THEN Some([name |-> addr.name, address |-> Get(addr.address)])
       ELSE None

\* undefined is None; a list is Some(list)
parseAddresses(addrs) ==
  CASE addrs.kind = "absent" -> None
    [] addrs.kind = "string" ->
         IF addrs.value = <<>> THEN None
         ELSE Some(<< [name |-> None, address |-> addrs.value] >>)
    [] addrs.kind = "list" ->
         Some(Flatten([i \in DOMAIN addrs.items |-> parseAddress(addrs.items[i])]))
    [] addrs.kind = "object" ->
         IF IsSome(parseAddress(addrs)) THEN Some(<<Get(parseAddress(addrs))>>) ELSE None

\* [^>]
NotGt == [neg |-> TRUE, chars |-> {">"}]

\* [^\s<>]
NotSpaceAngle == [neg |-> TRUE, chars |-> SpaceChars \cup {"<", ">"}]

\* value.match(/<([^>]+)>/) || value.match(/([^\s<>]+@[^\s<>]+)/), then
\* match ? match[1] : value
extractEmailFromHeader(value) ==
  LET n == Len(value)
      Angle(p) == /\ value[p] = "<"
                  /\ p + 1 <= n
                  /\ value[p + 1] # ">"
                  /\ RunEnd(value, p + 1, NotGt) <= n
      a0 == Leftmost({p \in DOMAIN value : Angle(p)})
      \* [^\s<>]+ is greedy and @ is of the class: a match starts where a run
      \* of the class starts and takes the run, when an @ inside the run has a
      \* character of the run on either side
      Addr(p) == /\ In(value[p], NotSpaceAngle)
                 /\ \E j \in (p + 1)..(RunEnd(value, p, NotSpaceAngle) - 2) :
                      value[j] = "@"
      b0 == Leftmost({p \in DOMAIN value : Addr(p)})
  IN  IF a0 # 0 THEN SubSeq(value, a0 + 1, RunEnd(value, a0 + 1, NotGt) - 1)
      ELSE IF b0 # 0 THEN SubSeq(value, b0, RunEnd(value, b0, NotSpaceAngle) - 1)
           ELSE value

\* the header key parseEmlFile reads the return path from
K_return_path == <<"r","e","t","u","r","n","-","p","a","t","h">>

\* findHeader(headers, 'return-path'), then
\* returnPathHeader ? extractEmailFromHeader(returnPathHeader) : undefined
extractReturnPath(headers) ==
  LET returnPathHeader == findHeader(headers, K_return_path)
  IN  IF IsSome(returnPathHeader) /\ Get(returnPathHeader) # <<>>
      THEN Some(extractEmailFromHeader(Get(returnPathHeader)))
      ELSE None

----------------------------------------------------------------------------
(* Warnings.  An AnalysisWarning is [severity, title, relatedHeader]; its  *)
(* description is prose for the reader and is not modelled.                *)

\* the upper-case letter of each lower-case letter
UpperOf ==
  [c \in LowerChars |->
     UpperLetters[CHOOSE k \in DOMAIN LowerLetters : LowerLetters[k] = c]]

\* String.prototype.toUpperCase
toUpperCase(s) == [i \in 1..Len(s) |-> IF s[i] \in LowerChars THEN UpperOf[s[i]] ELSE s[i]]

T_authentication_failed == <<" ","A","u","t","h","e","n","t","i","c","a","t","i","o","n"," ","F","a","i","l","e","d">>

T_soft_fail == <<" ","S","o","f","t"," ","F","a","i","l">>

T_temporary_error == <<" ","T","e","m","p","o","r","a","r","y"," ","E","r","r","o","r">>

T_no_spf == <<"N","o"," ","S","P","F"," ","R","e","c","o","r","d"," ","F","o","u","n","d">>

T_no_dkim == <<"N","o"," ","D","K","I","M"," ","S","i","g","n","a","t","u","r","e"," ","F","o","u","n","d">>

T_no_dmarc == <<"N","o"," ","D","M","A","R","C"," ","R","e","c","o","r","d"," ","F","o","u","n","d">>

T_return_path_mismatch == <<"R","e","t","u","r","n","-","P","a","t","h"," ","D","o","m","a","i","n"," ","M","i","s","m","a","t","c","h">>

T_automated_sending == <<"A","u","t","o","m","a","t","e","d"," ","S","e","n","d","i","n","g"," ","D","e","t","e","c","t","e","d">>

K_x_mailer == <<"x","-","m","a","i","l","e","r">>

Warning(severity, title, relatedHeader) ==
  [severity |-> severity, title |-> title, relatedHeader |-> relatedHeader]

\* the mutant of the failed-authentication rule that takes a permerror for a
\* temporary error
authWarning_PermerrorIsTemporary(auth) ==
  IF auth.result = R_fail
  THEN << Warning("error", toUpperCase(auth.method) \o T_authentication_failed,
                  Some(auth.rawHeader)) >>
  ELSE IF auth.result = R_softfail
       THEN << Warning("warning", toUpperCase(auth.method) \o T_soft_fail,
                       Some(auth.rawHeader)) >>
       ELSE IF auth.result \in {R_temperror, R_permerror}
            THEN << Warning("warning", toUpperCase(auth.method) \o T_temporary_error,
                            Some(auth.rawHeader)) >>
            ELSE <<>>

\* the body of the loop over the authentication results: what it pushes
authWarning(auth) ==
  IF auth.result = R_fail \/ auth.result = R_permerror
  THEN << Warning("error", toUpperCase(auth.method) \o T_authentication_failed,
                  Some(auth.rawHeader)) >>
  ELSE IF auth.result = R_softfail
       THEN << Warning("warning", toUpperCase(auth.method) \o T_soft_fail,
                       Some(auth.rawHeader)) >>
       ELSE IF auth.result = R_temperror
            THEN << Warning("warning", toUpperCase(auth.method) \o T_temporary_error,
                            Some(auth.rawHeader)) >>
            ELSE <<>>

\* the mutant of the missing-authentication rule that counts only the entries
\* with a verdict
missingWarnings_NeedsVerdict(authentication) ==
  LET methods == {authentication[i].method :
                    i \in {j \in DOMAIN authentication :
                             authentication[j].result # R_unknown}}
  IN  (IF M_spf \notin methods THEN <<Warning("info", T_no_spf, None)>> ELSE <<>>)
        \o (IF M_dkim \notin methods THEN <<Warning("info", T_no_dkim, None)>> ELSE <<>>)
        \o (IF M_dmarc \notin methods THEN <<Warning("info", T_no_dmarc, None)>> ELSE <<>>)

\* the mutant of the missing-authentication rule that is silent about a
\* message without any authentication entry
missingWarnings_SilentWithoutEntries(authentication) ==
  IF authentication = <<>> THEN <<>>
  ELSE missingWarnings_NeedsVerdict(authentication)

\* the check for missing authentication: what it pushes
missingWarnings(authentication) ==
  LET methods == {authentication[i].method : i \in DOMAIN authentication}
  IN  (IF M_spf \notin methods THEN <<Warning("info", T_no_spf, None)>> ELSE <<>>)
        \o (IF M_dkim \notin methods THEN <<Warning("info", T_no_dkim, None)>> ELSE <<>>)
        \o (IF M_dmarc \notin methods THEN <<Warning("info", T_no_dmarc, None)>> ELSE <<>>)

\* s.split('@')[1]?.toLowerCase(): the text between the first @ and the
\* next, undefined without an @
domainPart(s) ==
  LET ats == {p \in DOMAIN s : s[p] = "@"}
      a1  == Leftmost(ats)
      a2  == Leftmost({p \in ats : p > a1})
  IN  IF a1 = 0 THEN None
      ELSE Some(toLowerCase(SubSeq(s, a1 + 1, IF a2 = 0 THEN Len(s) ELSE a2 - 1)))

\* the check for a Return-Path mismatch with From: what it pushes
mismatchWarnings(from, returnPath) ==
  IF /\ IsSome(from) /\ Get(from) # <<>>
     /\ IsSome(returnPath) /\ Get(returnPath) # <<>>
  THEN LET fromDomain       == domainPart(Get(from)[1].address)
           returnPathDomain == domainPart(Get(returnPath))
       IN  IF /\ IsSome(fromDomain) /\ Get(fromDomain) # <<>>
              /\ IsSome(returnPathDomain) /\ Get(returnPathDomain) # <<>>
              /\ fromDomain # returnPathDomain
           THEN <<Warning("warning", T_return_path_mismatch, None)>>
           ELSE <<>>
  ELSE <<>>

\* /php|script/i.test(s)
IsScriptLike(s) ==
  \E p \in DOMAIN s : MatchLit(s, p, <<"p","h","p">>) \/ MatchLit(s, p, <<"s","c","r","i","p","t">>)

\* the check for suspicious headers: what it pushes
mailerWarnings(headers) ==
  LET xMailer == findHeader(headers, K_x_mailer)
  IN  IF IsSome(xMailer) /\ Get(xMailer) # <<>> /\ IsScriptLike(Get(xMailer))
      THEN <<Warning("info", T_automated_sending, xMailer)>>
      ELSE <<>>

\* generateWarnings pushes onto the array it is given: the array afterwards
generateWarnings(warnings, authentication, from, returnPath, headers) ==
  warnings
    \o Flatten([i \in DOMAIN authentication |-> authWarning(authentication[i])])
    \o missingWarnings(authentication)
    \o mismatchWarnings(from, returnPath)
    \o mailerWarnings(headers)

----------------------------------------------------------------------------
(* The decoded messages the model parses: header lists of at most          *)
(* MaxHeaders headers drawn from HeaderPool.                               *)

MaxHeaders == 3

\* "spf=pass; dkim=fail header.d=example.com; dmarc=pass"
V_ar_three == <<"s","p","f","=","p","a","s","s",";"," ","d","k","i","m","=","f","a","i","l"," ","h","e","a","d","e","r",".","d","=","e","x","a","m","p","l","e",".","c","o","m",";"," ","d","m","a","r","c","=","p","a","s","s">>

\* "dkim=bogus header.d=a.com"
V_ar_bogus == <<"d","k","i","m","=","b","o","g","u","s"," ","h","e","a","d","e","r",".","d","=","a",".","c","o","m">>

\* "dkim=pass header.d=a.com"
V_ar_dkim_pass == <<"d","k","i","m","=","p","a","s","s"," ","h","e","a","d","e","r",".","d","=","a",".","c","o","m">>

\* "mx; spf=PASS"
V_ar_upper == <<"m","x",";"," ","s","p","f","=","P","A","S","S">>

\* "pass (envelope-from=bob@example.org; x)"
V_spf_envelope == <<"p","a","s","s"," ","(","e","n","v","e","l","o","p","e","-","f","r","o","m","=","b","o","b","@","e","x","a","m","p","l","e",".","o","r","g",";"," ","x",")">>

\* "SoftFail identity=a.com"
V_spf_softfail == <<"S","o","f","t","F","a","i","l"," ","i","d","e","n","t","i","t","y","=","a",".","c","o","m">>

\* "weird"
V_spf_weird == <<"w","e","i","r","d">>

\* "v=1; d=a.com; s=sel"
V_dkim_sig == <<"v","=","1",";"," ","d","=","a",".","c","o","m",";"," ","s","=","s","e","l">>

\* "v=1; a=rsa"
V_dkim_no_domain == <<"v","=","1",";"," ","a","=","r","s","a">>

\* "d=unknown; s=k"
V_dkim_unknown == <<"d","=","u","n","k","n","o","w","n",";"," ","s","=","k">>

\* "i=1; cv=Fail; d=a.com"
V_arc_fail == <<"i","=","1",";"," ","c","v","=","F","a","i","l",";"," ","d","=","a",".","c","o","m">>

\* "i=1"
V_arc_plain == <<"i","=","1">>

\* "from a.x by b.x with ESMTP; 1970-01-02"
V_rc_full == <<"f","r","o","m"," ","a",".","x"," ","b","y"," ","b",".","x"," ","w","i","t","h"," ","E","S","M","T","P",";"," ","1","9","7","0","-","0","1","-","0","2">>

\* "by c.x; 1970-01-03"
V_rc_late == <<"b","y"," ","c",".","x",";"," ","1","9","7","0","-","0","1","-","0","3">>

\* "(qmail)"
V_rc_bare == <<"(","q","m","a","i","l",")">>

\* "by e.x; id 1; 1970-01-01"
V_rc_two_semicolons == <<"b","y"," ","e",".","x",";"," ","i","d"," ","1",";"," ","1","9","7","0","-","0","1","-","0","1">>

\* "by b.x; soon"
V_rc_bad_date == <<"b","y"," ","b",".","x",";"," ","s","o","o","n">>

\* "hi"
V_subject == <<"h","i">>

Header(k, v) == [key |-> k, value |-> v]

HeaderPool ==
  { Header(<<"A","u","t","h","e","n","t","i","c","a","t","i","o","n","-","R","e","s","u","l","t","s">>, V_ar_three),
    Header(<<"A","u","t","h","e","n","t","i","c","a","t","i","o","n","-","R","e","s","u","l","t","s">>, V_ar_bogus),
    Header(<<"a","u","t","h","e","n","t","i","c","a","t","i","o","n","-","r","e","s","u","l","t","s">>, V_ar_dkim_pass),
    Header(<<"A","u","t","h","e","n","t","i","c","a","t","i","o","n","-","R","e","s","u","l","t","s">>, V_ar_upper),
    Header(<<"R","e","c","e","i","v","e","d","-","S","P","F">>, V_spf_envelope),
    Header(<<"R","e","c","e","i","v","e","d","-","S","P","F">>, V_spf_softfail),
    Header(<<"R","e","c","e","i","v","e","d","-","S","P","F">>, V_spf_weird),
    Header(<<"D","K","I","M","-","S","i","g","n","a","t","u","r","e">>, V_dkim_sig),
    Header(<<"D","K","I","M","-","S","i","g","n","a","t","u","r","e">>, V_dkim_no_domain),
    Header(<<"D","K","I","M","-","S","i","g","n","a","t","u","r","e">>, V_dkim_unknown),
    Header(<<"A","R","C","-","S","e","a","l">>, V_arc_fail),
    Header(<<"A","R","C","-","S","e","a","l">>, V_arc_plain),
    Header(<<"R","e","c","e","i","v","e","d">>, V_rc_full),
    Header(<<"R","E","C","E","I","V","E","D">>, V_rc_late),
    Header(<<"R","e","c","e","i","v","e","d">>, V_rc_bare),
    Header(<<"r","e","c","e","i","v","e","d">>, V_rc_two_semicolons),
    Header(<<"R","e","c","e","i","v","e","d">>, V_rc_bad_date),
    Header(<<"S","u","b","j","e","c","t">>, V_subject) }

HeaderLists == UNION {[1..n -> HeaderPool] : n \in 0..MaxHeaders}

----------------------------------------------------------------------------
(* The state of one run of parseEmlFile on a decoded message.              *)

VARIABLES
  headers,         \* the header list of the decoded message
  pc,              \* how far parseEmlFile has come
  results,         \* parseAuthenticationHeaders' list before deduplication
  authentication,  \* email.authentication
  receivedChain,   \* email.receivedChain
  lookup,          \* the last header lookup by key and what it returned
  parsedFrom,      \* parsed.from: the From field as the decoder hands it over
  from,            \* email.from
  returnPath,      \* email.returnPath
  warnings,        \* the warnings array of the last run of parseEmlFile
  returned,        \* what the runs of parseEmlFile have returned, in order
  analysis,        \* EmailAnalyzer's analysis, null as None
  isProcessing,    \* EmailAnalyzer's isProcessing
  error,           \* EmailAnalyzer's error, null as None
  filename,        \* EmailAnalyzer's filename
  activeTab,       \* EmailAnalyzer's activeTab
  showImages,      \* EmailPreview's showImages, None while it is not mounted
  pending,         \* the reads and the parses that are awaited
  last             \* the last step of the page: what happened, and to which file

\* what only the whole pipeline of parseEmlFile reads and writes
pipelineVars == <<parsedFrom, from, returnPath, warnings, returned>>

\* the state of the page: of EmailAnalyzer, of its FileDropzone and of its
\* EmailPreview
uiVars ==
  <<analysis, isProcessing, error, filename, activeTab, showImages, pending, last>>

vars ==
  <<headers, pc, results, authentication, receivedChain, lookup, pipelineVars, uiVars>>

\* the page has not been opened
UiIdle ==
  /\ analysis = None
  /\ isProcessing = FALSE
  /\ error = None
  /\ filename = <<>>
  /\ activeTab = "overview"
  /\ showImages = None
  /\ pending = <<>>
  /\ last = None

\* the pipeline has not run
PipelineIdle ==
  /\ from = None
  /\ returnPath = None
  /\ warnings = <<>>
  /\ returned = <<>>

\* the keys looked up: one the pool holds in three spellings, one spelled
\* otherwise than the pool spells it, one no header has
LookupKeys == {K_received, <<"D","K","I","M","-","S","I","G","N","A","T","U","R","E">>, <<"x","-","m","a","i","l","e","r">>}

Init ==
  /\ headers \in HeaderLists
  /\ pc = "start"
  /\ results = <<>>
  /\ authentication = <<>>
  /\ receivedChain = <<>>
  /\ lookup = None
  /\ parsedFrom = AbsentField
  /\ PipelineIdle
  /\ UiIdle

\* const authentication = parseAuthenticationHeaders(headers)
ParseEmlFile_authentication ==
  /\ pc = "start"
  /\ results' = collectAuthResults(headers)
  /\ authentication' = parseAuthenticationHeaders(headers)
  /\ pc' = "authentication"
  /\ UNCHANGED <<headers, receivedChain, lookup, pipelineVars, uiVars>>

\* const receivedChain = parseReceivedChain(headers)
ParseEmlFile_receivedChain ==
  /\ pc = "authentication"
  /\ receivedChain' = parseReceivedChain(headers)
  /\ pc' = "done"
  /\ UNCHANGED <<headers, results, authentication, lookup, pipelineVars, uiVars>>

\* a lookup in the headers of the parsed message: findAllHeaders(headers, key)
\* and findHeader(headers, key), for any key
FindHeaders ==
  /\ pc = "done"
  /\ \E key \in LookupKeys :
       lookup' = Some([key   |-> key,
                       all   |-> findAllHeaders(headers, key),
                       first |-> findHeader(headers, key)])
  /\ UNCHANGED <<headers, pc, results, authentication, receivedChain, pipelineVars, uiVars>>

Next ==
  \/ ParseEmlFile_authentication
  \/ ParseEmlFile_receivedChain
  \/ FindHeaders

Spec == Init /\ [][Next]_vars

----------------------------------------------------------------------------
(* The whole pipeline of parseEmlFile, run again and again on one decoded  *)
(* message: a header list of at most MaxMessageHeaders headers drawn from  *)
(* MessageHeaderPool and a From field drawn from FromFields.  After its    *)
(* one await, of the decoder, parseEmlFile runs to its return without a    *)
(* break.                                                                  *)

MaxMessageHeaders == 2

MaxRuns == 2

\* "spf=fail; dkim=permerror"
V_ar_two_errors == <<"s","p","f","=","f","a","i","l",";"," ","d","k","i","m","=","p","e","r","m","e","r","r","o","r">>

\* "spf=softfail; dmarc=temperror"
V_ar_two_warnings == <<"s","p","f","=","s","o","f","t","f","a","i","l",";"," ","d","m","a","r","c","=","t","e","m","p","e","r","r","o","r">>

\* "spf=pass; dkim=none; dmarc=neutral"
V_ar_quiet == <<"s","p","f","=","p","a","s","s",";"," ","d","k","i","m","=","n","o","n","e",";"," ","d","m","a","r","c","=","n","e","u","t","r","a","l">>

\* "(mx) pass"
V_spf_comment_first == <<"(","m","x",")"," ","p","a","s","s">>

\* "v=1"
V_dkim_bare == <<"v","=","1">>

\* "<b@y.com>"
V_rp_other == <<"<","b","@","y",".","c","o","m",">">>

\* "<b@x.com>"
V_rp_same == <<"<","b","@","x",".","c","o","m",">">>

\* "<b@x.com@y.com>"
V_rp_two_ats == <<"<","b","@","x",".","c","o","m","@","y",".","c","o","m",">">>

\* "PHPMailer 6"
V_xm_php == <<"P","H","P","M","a","i","l","e","r"," ","6">>

\* "Outlook"
V_xm_outlook == <<"O","u","t","l","o","o","k">>

MessageHeaderPool ==
  { Header(<<"A","u","t","h","e","n","t","i","c","a","t","i","o","n","-","R","e","s","u","l","t","s">>, V_ar_two_errors),
    Header(<<"A","u","t","h","e","n","t","i","c","a","t","i","o","n","-","R","e","s","u","l","t","s">>, V_ar_two_warnings),
    Header(<<"A","u","t","h","e","n","t","i","c","a","t","i","o","n","-","R","e","s","u","l","t","s">>, V_ar_quiet),
    Header(<<"R","e","c","e","i","v","e","d","-","S","P","F">>, V_spf_comment_first),
    Header(<<"D","K","I","M","-","S","i","g","n","a","t","u","r","e">>, V_dkim_bare),
    Header(<<"A","R","C","-","S","e","a","l">>, V_arc_plain),
    Header(<<"R","e","t","u","r","n","-","P","a","t","h">>, V_rp_other),
    Header(<<"R","e","t","u","r","n","-","P","a","t","h">>, V_rp_same),
    Header(<<"R","e","t","u","r","n","-","P","a","t","h">>, V_rp_two_ats),
    Header(<<"X","-","M","a","i","l","e","r">>, V_xm_php),
    Header(<<"X","-","M","a","i","l","e","r">>, V_xm_outlook),
    Header(<<"R","e","c","e","i","v","e","d">>, V_rc_full),
    Header(<<"R","e","c","e","i","v","e","d">>, V_rc_late) }

MessageHeaderLists == UNION {[1..n -> MessageHeaderPool] : n \in 0..MaxMessageHeaders}

\* "a@x.com"
A_plain == <<"a","@","x",".","c","o","m">>

\* "a@X.COM"
A_upper == <<"a","@","X",".","C","O","M">>

\* "c@z.com"
A_third == <<"c","@","z",".","c","o","m">>

\* "Ann"
N_ann == <<"A","n","n">>

\* the shapes of an address field: absent, a string, an object, a list of
\* either; with and without an address to be parsed
FromFields ==
  { AbsentField,
    StringField(<<>>),
    StringField(A_plain),
    ObjectField(Some(N_ann), Some(A_upper)),
    ObjectField(Some(N_ann), None),
    ListField(<<>>),
    ListField(<<ObjectField(Some(N_ann), None)>>),
    ListField(<<StringField(A_plain), ObjectField(None, Some(A_third))>>),
    ListField(<<ObjectField(Some(N_ann), None), StringField(A_plain)>>) }

\* performance.now() - startTime, in milliseconds
ParseTimes == {1, 2}

InitPipeline ==
  /\ headers \in MessageHeaderLists
  /\ parsedFrom \in FromFields
  /\ pc = "start"
  /\ results = <<>>
  /\ authentication = <<>>
  /\ receivedChain = <<>>
  /\ lookup = None
  /\ PipelineIdle
  /\ UiIdle

\* the mutant of the warnings array that is kept from run to run
newWarnings_Shared(old) == old

\* const warnings: AnalysisWarning[] = []
newWarnings(old) == <<>>

\* parseEmlFile from the decoder's answer to its return: parsed is what the
\* decoder hands over, old the warnings array as it is found, parseTime what
\* the clock measures.  Of the email, the fields the parser computes are
\* modelled, and html, which is copied from the decoder's answer and is
\* None where the message has no HTML body.
parseEmlFile(parsed, old, parseTime) ==
  LET addresses == parseAddresses(parsed.from)
      path      == extractReturnPath(parsed.headers)
      verdicts  == parseAuthenticationHeaders(parsed.headers)
  IN  [email     |-> [from           |-> addresses,
                      returnPath     |-> path,
                      html           |-> parsed.html,
                      headers        |-> parsed.headers,
                      authentication |-> verdicts,
                      receivedChain  |-> parseReceivedChain(parsed.headers)],
       warnings  |-> generateWarnings(newWarnings(old), verdicts, addresses, path,
                                      parsed.headers),
       parseTime |-> parseTime]

\* one run of parseEmlFile on the decoded message, statement by statement
ParseEmlFile ==
  /\ Len(returned) < MaxRuns
  /\ from' = parseAddresses(parsedFrom)
  /\ returnPath' = extractReturnPath(headers)
  /\ results' = collectAuthResults(headers)
  /\ authentication' = deduplicateAuthResults(results')
  /\ receivedChain' = parseReceivedChain(headers)
  /\ warnings' = generateWarnings(newWarnings(warnings), authentication', from',
                                  returnPath', headers)
  /\ \E parseTime \in ParseTimes :
       returned' = Append(returned,
                          [email     |-> [from           |-> from',
                                          returnPath     |-> returnPath',
                                          headers        |-> headers,
                                          authentication |-> authentication',
                                          receivedChain  |-> receivedChain'],
                           warnings  |-> warnings',
                           parseTime |-> parseTime])
  /\ pc' = "done"
  /\ UNCHANGED <<headers, parsedFrom, lookup, uiVars>>

NextPipeline == ParseEmlFile

SpecPipeline == InitPipeline /\ [][NextPipeline]_vars

----------------------------------------------------------------------------
(* The page: FileDropzone validates and reads a file, EmailAnalyzer parses *)
(* it.  A file is [name, size, type, content]; its content is what the     *)
(* decoder makes of it, [decodable |-> FALSE] or [decodable |-> TRUE,      *)
(* parsed |-> the decoded message].  The read of file.arrayBuffer() and    *)
(* the run of parseEmlFile are awaited, so other handlers run in between;  *)
(* at most MaxPending of them are awaited at a time.  What the dropzone    *)
(* keeps for its own display, isDragActive and dragError, is not modelled.  *)
(* The analysis view shows one of four tabs; EmailPreview, in the tab      *)
(* 'preview', keeps showImages while it is mounted.                        *)

MaxPending == 2

MAX_FILE_SIZE == 50 * 1024 * 1024

\* String.prototype.endsWith
endsWith(s, suffix) ==
  /\ Len(s) >= Len(suffix)
  /\ SubSeq(s, Len(s) - Len(suffix) + 1, Len(s)) = suffix

validTypes == {"message/rfc822", "text/plain", "application/octet-stream", ""}

E_not_eml == "Please upload a valid .eml file"

E_too_large == "File is too large. Maximum size is 50MB"

E_read_failed == "Failed to read file. Please try again."

E_parse_failed == "Failed to parse the EML file. Please ensure it is a valid email file."

\* the mutant of validateFile that rejects a file of an unexpected MIME type
validateFile_RejectsUnexpectedType(file) ==
  IF ~endsWith(toLowerCase(file.name), <<".","e","m","l">>) THEN Some(E_not_eml)
  ELSE IF file.size > MAX_FILE_SIZE THEN Some(E_too_large)
       ELSE IF file.type \notin validTypes THEN Some(E_not_eml)
            ELSE None

\* the error message, null as None; an unexpected MIME type is only logged
validateFile(file) ==
  IF ~endsWith(toLowerCase(file.name), <<".","e","m","l">>) THEN Some(E_not_eml)
  ELSE IF file.size > MAX_FILE_SIZE THEN Some(E_too_large)
       ELSE None

Undecodable == [decodable |-> FALSE]

Decodable(parsed) == [decodable |-> TRUE, parsed |-> parsed]

\* an HTML body with an image of another server
H_external_image == <<"<","p",">","<","I","M","G"," ","a","l","t","=","x"," ","s","r","c"," ","="," ","'","h","t","t","p","s",":","/","/","t",".","x","/","a",".","p","n","g","'",">","<","/","p",">">>

\* an HTML body with an image that is a part of the message
H_inline_image == <<"<","i","m","g"," ","s","r","c","=","\"","c","i","d",":","1","\"",">","<","a"," ","h","r","e","f","=","\"","h","t","t","p",":","/","/","t",".","x","/","\"",">","t","<","/","a",">">>

\* a message with two failed checks, and a message without headers
ParsedFailing ==
  [headers |-> <<Header(<<"A","u","t","h","e","n","t","i","c","a","t","i","o","n","-","R","e","s","u","l","t","s">>, V_ar_two_errors)>>,
   from    |-> StringField(A_plain),
   html    |-> Some(H_external_image)]

ParsedEmpty == [headers |-> <<>>, from |-> AbsentField, html |-> Some(H_inline_image)]

File(name, size, type, content) ==
  [name |-> name, size |-> size, type |-> type, content |-> content]

\* files on either side of each check: the extension in lower and in upper
\* case, a name without it and a name shorter than it; the greatest size
\* allowed and the least not allowed; an expected, an empty and an
\* unexpected MIME type
UploadFiles ==
  { File(<<"a",".","e","m","l">>, 0, "message/rfc822", Decodable(ParsedFailing)),
    File(<<"B",".","E","M","L">>, MAX_FILE_SIZE, "", Decodable(ParsedEmpty)),
    File(<<"c",".","e","m","l">>, 10, "image/png", Undecodable),
    File(<<"a",".","e","m","l">>, MAX_FILE_SIZE + 1, "message/rfc822", Decodable(ParsedEmpty)),
    File(<<"a",".","t","x","t">>, 10, "text/plain", Decodable(ParsedEmpty)),
    File(<<"e","m","l">>, 10, "", Decodable(ParsedEmpty)) }

\* what a drop carries: no file, one file, or more than one
Drops == {<<>>} \cup {<<f>> : f \in UploadFiles} \cup {<<f, f>> : f \in UploadFiles}

\* a step of the page, for last
Step(event, file) == Some([event |-> event, file |-> file])

\* the list without its i-th element
Without(list, i) == SubSeq(list, 1, i - 1) \o SubSeq(list, i + 1, Len(list))

\* the values of the four TabsTrigger of the analysis view
Tabs == {"overview", "security", "headers", "preview"}

\* TabsContent renders its children only while its value is the value of
\* Tabs
TabsContent_mounted(value, tab) == value = tab

\* analyzeContentSafety(html).hasExternalImages: whether
\* /<img\s+[^>]*src\s*=\s*["']?(https?:\/\/[^"'\s>]+)["']?/gi matches in html
hasExternalImages(html) ==
  \E p \in DOMAIN html : \E q \in (p + 5)..Len(html) :
    /\ MatchLit(html, p, <<"<","i","m","g">>)
    /\ In(html[p + 4], Space)
    /\ \A k \in (p + 5)..(q - 1) : html[k] # ">"
    /\ MatchLit(html, q, <<"s","r","c">>)
    /\ LET eq == RunEnd(html, q + 3, Space)
           quote == RunEnd(html, eq + 1, Space)
           url == IF quote <= Len(html) /\ html[quote] \in {"\"", "'"}
                  THEN quote + 1 ELSE quote
           host == IF MatchLit(html, url, <<"h","t","t","p","s",":","/","/">>) THEN url + 8
                   ELSE IF MatchLit(html, url, <<"h","t","t","p",":","/","/">>) THEN url + 7
                   ELSE 0
       IN  /\ eq <= Len(html)
           /\ html[eq] = "="
           /\ host # 0
           /\ host <= Len(html)
           /\ html[host] \notin SpaceChars \cup {"\"", "'", ">"}

\* showImages of the EmailPreview of the render that follows a step, when
\* the step leaves the analysis and the tab given: the analysis view is
\* rendered for an analysis, EmailPreview in it for the tab 'preview';
\* useState(false) when it is mounted, the state it has while it stays
EmailPreview_showImages(nextAnalysis, nextTab) ==
  IF nextAnalysis = None \/ ~TabsContent_mounted("preview", nextTab) THEN None
  ELSE IF showImages = None THEN Some(FALSE)
  ELSE showImages

InitUI ==
  /\ headers = <<>>
  /\ pc = "start"
  /\ results = <<>>
  /\ authentication = <<>>
  /\ receivedChain = <<>>
  /\ lookup = None
  /\ parsedFrom = AbsentField
  /\ PipelineIdle
  /\ UiIdle

\* processFile up to its await: validateFile, then onError, or the read of
\* the file
processFile(file) ==
  /\ Len(pending) < MaxPending
  /\ IF IsSome(validateFile(file))
     THEN /\ error' = validateFile(file)
          /\ last' = Step("rejected", Some(file))
          /\ UNCHANGED pending
     ELSE /\ pending' = Append(pending, [stage |-> "reading", file |-> file, promise |-> None])
          /\ last' = Step("reading", Some(file))
          /\ UNCHANGED error
  /\ UNCHANGED <<analysis, isProcessing, filename, activeTab, showImages>>

\* handleDrop on the dropzone, which is shown while there is no analysis: a
\* drop of no file or of several is turned away before processFile
HandleDrop ==
  /\ analysis = None
  /\ ~isProcessing
  /\ \E files \in Drops :
       IF Len(files) = 0
       THEN /\ last' = Step("dropped", None)
            /\ UNCHANGED <<analysis, isProcessing, error, filename, activeTab,
                            showImages, pending>>
       ELSE IF Len(files) > 1
            THEN /\ last' = Step("dropped", None)
                 /\ UNCHANGED <<analysis, isProcessing, error, filename, activeTab,
                            showImages, pending>>
            ELSE processFile(files[1])
  /\ UNCHANGED <<headers, pc, results, authentication, receivedChain, lookup, pipelineVars>>

\* handleInputChange: the file chosen in the dialog
HandleInputChange ==
  /\ analysis = None
  /\ \E file \in UploadFiles : processFile(file)
  /\ UNCHANGED <<headers, pc, results, authentication, receivedChain, lookup, pipelineVars>>

\* what the promise of parseEmlFile(content) resolves with, None when it
\* rejects
parseEmlFile_promise(content, parseTime) ==
  IF content.decodable
  THEN Some(parseEmlFile(content.parsed, <<>>, parseTime))
  ELSE None

\* file.arrayBuffer() resolves: onFileAccepted(content, file.name), which is
\* handleFileAccepted up to its await; parseEmlFile is called here, and the
\* promise it returns settles later
ReadResolves ==
  /\ \E i \in DOMAIN pending :
       /\ pending[i].stage = "reading"
       /\ isProcessing' = TRUE
       /\ error' = None
       /\ filename' = pending[i].file.name
       /\ \E parseTime \in ParseTimes :
            pending' = [pending EXCEPT ![i] =
                         [stage   |-> "parsing",
                          file    |-> pending[i].file,
                          promise |-> parseEmlFile_promise(pending[i].file.content, parseTime)]]
       /\ last' = Step("accepted", Some(pending[i].file))
  /\ UNCHANGED <<analysis, activeTab, showImages>>
  /\ UNCHANGED <<headers, pc, results, authentication, receivedChain, lookup, pipelineVars>>

\* file.arrayBuffer() rejects: the catch of processFile
ReadRejects ==
  /\ \E i \in DOMAIN pending :
       /\ pending[i].stage = "reading"
       /\ error' = Some(E_read_failed)
       /\ pending' = Without(pending, i)
       /\ last' = Step("unread", Some(pending[i].file))
  /\ UNCHANGED <<analysis, isProcessing, filename, activeTab, showImages>>
  /\ UNCHANGED <<headers, pc, results, authentication, receivedChain, lookup, pipelineVars>>

\* the mutant of the try branch without setActiveTab('overview')
handleFileAccepted_resolved_KeepsTab(result) ==
  /\ analysis' = Some(result)
  /\ UNCHANGED activeTab
  /\ isProcessing' = FALSE
  /\ showImages' = EmailPreview_showImages(analysis', activeTab')
  /\ UNCHANGED <<error, filename>>

\* handleFileAccepted after parseEmlFile has resolved: the try and the finally
handleFileAccepted_resolved(result) ==
  /\ analysis' = Some(result)
  /\ activeTab' = "overview"
  /\ isProcessing' = FALSE
  /\ showImages' = EmailPreview_showImages(analysis', activeTab')
  /\ UNCHANGED <<error, filename>>

\* the mutant of the catch branch without the finally
handleFileAccepted_rejected_StaysProcessing ==
  /\ error' = Some(E_parse_failed)
  /\ analysis' = None
  /\ UNCHANGED isProcessing
  /\ UNCHANGED <<filename, activeTab>>
  /\ showImages' = EmailPreview_showImages(analysis', activeTab')

\* the mutant of the catch branch that keeps the analysis it finds
handleFileAccepted_rejected_KeepsOld ==
  /\ error' = Some(E_parse_failed)
  /\ UNCHANGED analysis
  /\ isProcessing' = FALSE
  /\ UNCHANGED <<filename, activeTab>>
  /\ showImages' = EmailPreview_showImages(analysis', activeTab')

\* handleFileAccepted after parseEmlFile has rejected: the catch and the
\* finally
handleFileAccepted_rejected ==
  /\ error' = Some(E_parse_failed)
  /\ analysis' = None
  /\ isProcessing' = FALSE
  /\ UNCHANGED <<filename, activeTab>>
  /\ showImages' = EmailPreview_showImages(analysis', activeTab')

\* parseEmlFile resolves for a content the decoder can parse
ParseResolves ==
  /\ \E i \in DOMAIN pending :
       /\ pending[i].stage = "parsing"
       /\ IsSome(pending[i].promise)
       /\ handleFileAccepted_resolved(Get(pending[i].promise))
       /\ pending' = Without(pending, i)
       /\ last' = Step("parsed", Some(pending[i].file))
  /\ UNCHANGED <<headers, pc, results, authentication, receivedChain, lookup, pipelineVars>>

\* parseEmlFile rejects for a content the decoder cannot parse
ParseRejects ==
  /\ \E i \in DOMAIN pending :
       /\ pending[i].stage = "parsing"
       /\ ~IsSome(pending[i].promise)
       /\ handleFileAccepted_rejected
       /\ pending' = Without(pending, i)
       /\ last' = Step("unparsed", Some(pending[i].file))
  /\ UNCHANGED <<headers, pc, results, authentication, receivedChain, lookup, pipelineVars>>

\* handleReset, of the button of the analysis view
HandleReset ==
  /\ analysis # None
  /\ analysis' = None
  /\ error' = None
  /\ filename' = <<>>
  /\ activeTab' = "overview"
  /\ showImages' = EmailPreview_showImages(analysis', activeTab')
  /\ last' = Step("reset", None)
  /\ UNCHANGED <<isProcessing, pending>>
  /\ UNCHANGED <<headers, pc, results, authentication, receivedChain, lookup, pipelineVars>>

\* onValueChange of Tabs, in the analysis view: setActiveTab
SelectTab ==
  /\ analysis # None
  /\ \E tab \in Tabs :
       /\ activeTab' = tab
       /\ showImages' = EmailPreview_showImages(analysis, tab)
  /\ last' = Step("tab", None)
  /\ UNCHANGED <<analysis, isProcessing, error, filename, pending>>
  /\ UNCHANGED <<headers, pc, results, authentication, receivedChain, lookup, pipelineVars>>

\* onClick of 'Load External Images', the button EmailPreview renders for
\* an html with external images while showImages is false
LoadExternalImages ==
  /\ showImages = Some(FALSE)
  /\ IsSome(Get(analysis).email.html)
  /\ hasExternalImages(Get(Get(analysis).email.html))
  /\ showImages' = Some(TRUE)
  /\ last' = Step("images", None)
  /\ UNCHANGED <<analysis, isProcessing, error, filename, activeTab, pending>>
  /\ UNCHANGED <<headers, pc, results, authentication, receivedChain, lookup, pipelineVars>>

NextUI ==
  \/ HandleDrop
  \/ HandleInputChange
  \/ ReadResolves
  \/ ReadRejects
  \/ ParseResolves
  \/ ParseRejects
  \/ HandleReset
  \/ SelectTab
  \/ LoadExternalImages

SpecUI == InitUI /\ [][NextUI]_vars

\* the page when every awaited parseEmlFile settles: the decoder ends on
\* every content, with a message or with an error
SpecUILive ==
  /\ InitUI
  /\ [][NextUI]_vars
  /\ WF_vars(ParseResolves)
  /\ WF_vars(ParseRejects)

----------------------------------------------------------------------------
(* Conflicting and overlapping authentication headers: header lists of at  *)
(* most MaxAuthHeaders headers drawn from AuthHeaderPool, handed to        *)
(* parseAuthenticationHeaders.                                             *)

MaxAuthHeaders == 3

\* "dkim=pass header.d=unknown"
V_ar_dkim_named_unknown == <<"d","k","i","m","=","p","a","s","s"," ","h","e","a","d","e","r",".","d","=","u","n","k","n","o","w","n">>

\* "dkim=fail"
V_ar_dkim_fail == <<"d","k","i","m","=","f","a","i","l">>

\* "dkim=pass"
V_ar_dkim_pass_bare == <<"d","k","i","m","=","p","a","s","s">>

\* "dkim=pass header.i=@a.com"
V_ar_dkim_i_next == <<"d","k","i","m","=","p","a","s","s"," ","h","e","a","d","e","r",".","i","=","@","a",".","c","o","m">>

\* "dkim=fail reason=x header.i=@a.com"
V_ar_dkim_i_later == <<"d","k","i","m","=","f","a","i","l"," ","r","e","a","s","o","n","=","x"," ","h","e","a","d","e","r",".","i","=","@","a",".","c","o","m">>

\* "dmarc=pass"
V_ar_dmarc == <<"d","m","a","r","c","=","p","a","s","s">>

\* "spf=bogus"
V_ar_spf_bogus == <<"s","p","f","=","b","o","g","u","s">>

\* "spf=pass; spf=fail"
V_ar_spf_twice == <<"s","p","f","=","p","a","s","s",";"," ","s","p","f","=","f","a","i","l">>

\* "d=a.com"
V_dkim_a == <<"d","=","a",".","c","o","m">>

\* "fail"
V_spf_fail == <<"f","a","i","l">>

\* "pass identity=b.com envelope-from=a.com"
V_spf_identity_first == <<"p","a","s","s"," ","i","d","e","n","t","i","t","y","=","b",".","c","o","m"," ","e","n","v","e","l","o","p","e","-","f","r","o","m","=","a",".","c","o","m">>

\* "pass sender c.com"
V_spf_sender == <<"p","a","s","s"," ","s","e","n","d","e","r"," ","c",".","c","o","m">>

AuthHeaderPool ==
  { Header(<<"A","u","t","h","e","n","t","i","c","a","t","i","o","n","-","R","e","s","u","l","t","s">>, V_ar_dkim_named_unknown),
    Header(<<"A","u","t","h","e","n","t","i","c","a","t","i","o","n","-","R","e","s","u","l","t","s">>, V_ar_dkim_fail),
    Header(<<"A","u","t","h","e","n","t","i","c","a","t","i","o","n","-","R","e","s","u","l","t","s">>, V_ar_dkim_pass_bare),
    Header(<<"A","u","t","h","e","n","t","i","c","a","t","i","o","n","-","R","e","s","u","l","t","s">>, V_ar_dkim_i_next),
    Header(<<"A","u","t","h","e","n","t","i","c","a","t","i","o","n","-","R","e","s","u","l","t","s">>, V_ar_dkim_i_later),
    Header(<<"A","u","t","h","e","n","t","i","c","a","t","i","o","n","-","R","e","s","u","l","t","s">>, V_ar_dmarc),
    Header(<<"A","u","t","h","e","n","t","i","c","a","t","i","o","n","-","R","e","s","u","l","t","s">>, V_ar_spf_bogus),
    Header(<<"A","u","t","h","e","n","t","i","c","a","t","i","o","n","-","R","e","s","u","l","t","s">>, V_ar_spf_twice),
    Header(<<"D","K","I","M","-","S","i","g","n","a","t","u","r","e">>, V_dkim_a),
    Header(<<"R","e","c","e","i","v","e","d","-","S","P","F">>, V_spf_fail),
    Header(<<"R","e","c","e","i","v","e","d","-","S","P","F">>, V_spf_identity_first),
    Header(<<"R","e","c","e","i","v","e","d","-","S","P","F">>, V_spf_sender),
    Header(<<"R","e","c","e","i","v","e","d","-","S","P","F">>, V_spf_comment_first) }

AuthHeaderLists == UNION {[1..n -> AuthHeaderPool] : n \in 0..MaxAuthHeaders}

InitAuth ==
  /\ headers \in AuthHeaderLists
  /\ pc = "start"
  /\ results = <<>>
  /\ authentication = <<>>
  /\ receivedChain = <<>>
  /\ lookup = None
  /\ parsedFrom = AbsentField
  /\ PipelineIdle
  /\ UiIdle

NextAuth == ParseEmlFile_authentication

SpecAuth == InitAuth /\ [][NextAuth]_vars

----------------------------------------------------------------------------
(* What the panels of the analysis view compute from an analysis: the      *)
(* delay indicators of RoutingPanel and the overall status of              *)
(* AuthenticationPanel.                                                    *)

\* `${n}` of an integer that is not negative
RECURSIVE numberToString(_)
numberToString(n) ==
  IF n < 10 THEN <<DigitSeq[n + 1]>>
  ELSE numberToString(n \div 10) \o <<DigitSeq[(n % 10) + 1]>>

\* formatDelay(ms), of an integral ms: Math.round(x) is the floor of x + 1/2,
\* and x.toFixed(1) is x rounded to tenths
formatDelay(ms) ==
  IF ms < 0 THEN [text |-> <<"t","i","m","e"," ","s","k","e","w">>, isLong |-> FALSE]
  ELSE IF ms < 1000 THEN [text |-> <<"<","1"," ","s","e","c">>, isLong |-> FALSE]
  ELSE IF ms < 60000
       THEN [text   |-> numberToString((ms + 500) \div 1000) \o <<" ","s","e","c">>,
             isLong |-> ms > 30000]
  ELSE IF ms < 3600000
       THEN [text   |-> numberToString((ms + 30000) \div 60000) \o <<" ","m","i","n">>,
             isLong |-> ms > 300000]
  ELSE LET tenths == (ms + 180000) \div 360000
       IN  [text   |-> numberToString(tenths \div 10) \o <<".">>
                         \o numberToString(tenths % 10) \o <<" ","h","r","s">>,
            isLong |-> TRUE]

\* the delay indicator RoutingPanel renders under each hop, None where it
\* renders none: the hop of index 0 of the code is the first of the list
RoutingPanel_delayIndicators(chain) ==
  [index \in 1..Len(chain) |->
     LET hop == chain[index]
         isLast == index = 1
         delay == IF IsSome(hop.delay) THEN Some(formatDelay(Get(hop.delay))) ELSE None
     IN  IF IsSome(delay) /\ ~isLast THEN delay ELSE None]

\* the mutant of getOverallStatus that takes a softfail for a failure
getOverallStatus_SoftfailFails(authResults) ==
  IF Len(authResults) = 0 THEN "unknown"
  ELSE LET hasPass == \E i \in DOMAIN authResults : authResults[i].result = R_pass
           hasFail == \E i \in DOMAIN authResults :
                        authResults[i].result \in {R_fail, R_permerror, R_softfail}
           hasSoftfail == \E i \in DOMAIN authResults : authResults[i].result = R_softfail
       IN  IF hasFail THEN "fail"
           ELSE IF hasSoftfail /\ ~hasPass THEN "partial"
           ELSE IF hasPass THEN (IF hasSoftfail THEN "partial" ELSE "pass")
           ELSE "unknown"

\* getOverallStatus(results), of AuthenticationPanel
getOverallStatus(authResults) ==
  IF Len(authResults) = 0 THEN "unknown"
  ELSE LET hasPass == \E i \in DOMAIN authResults : authResults[i].result = R_pass
           hasFail == \E i \in DOMAIN authResults :
                        authResults[i].result \in {R_fail, R_permerror}
           hasSoftfail == \E i \in DOMAIN authResults : authResults[i].result = R_softfail
       IN  IF hasFail THEN "fail"
           ELSE IF hasSoftfail /\ ~hasPass THEN "partial"
           ELSE IF hasPass THEN (IF hasSoftfail THEN "partial" ELSE "pass")
           ELSE "unknown"

\* const hasErrors = warnings.some(w => w.severity === 'error'), of the
\* analysis view
hasErrors(warningList) ==
  \E i \in DOMAIN warningList : warningList[i].severity = "error"

----------------------------------------------------------------------------
(* Properties.                                                             *)

\* a string occurs in another, as written
Contains(s, t) == \E p \in 1..(Len(s) - Len(t) + 1) : SubSeq(s, p, p + Len(t) - 1) = t

\* two keys are equal but for the case of their letters
SameKey(a, b) ==
  Len(a) = Len(b) /\ \A k \in 1..Len(a) : charToLower(a[k]) = charToLower(b[k])

\* the positions of the headers of a key, and the n-th of them
KeyPositions(key) == {i \in DOMAIN headers : SameKey(headers[i].key, key)}

NthPosition(S, n) == CHOOSE i \in S : Cardinality({j \in S : j < i}) = n - 1

\* the values of the headers of a key
ValuesOf(key) == {headers[i].value : i \in KeyPositions(key)}

\* a header value starts with a result word: the word in any case, and no
\* word character after it
StartsWithWord(header, word) ==
  /\ MatchLit(header, 1, word)
  /\ (Len(header) = Len(word) \/ ~In(header[Len(word) + 1], Word))

\* C1: every result of the list before and after deduplication is one of
\* the seven outcomes or unknown, never a raw token; and the leading token of
\* a Received-SPF header becomes the outcome it spells in whatever case, or
\* unknown when it spells none.
C1_ResultIsNormalized ==
  /\ \A i \in DOMAIN results : results[i].result \in ResultValues
  /\ \A i \in DOMAIN authentication : authentication[i].result \in ResultValues
  /\ \A i \in DOMAIN results :
       (results[i].method = M_spf /\ results[i].rawHeader \in ValuesOf(K_received_spf))
       => \/ /\ results[i].result # R_unknown
             /\ StartsWithWord(results[i].rawHeader, results[i].result)
          \/ /\ results[i].result = R_unknown
             /\ \A k \in DOMAIN validResults :
                  ~StartsWithWord(results[i].rawHeader, validResults[k])

\* C1's case: a token that is no outcome ("bogus") has become unknown and an
\* outcome in upper case ("PASS") has become pass.
C1_Witness ==
  /\ pc = "done"
  /\ \E i \in DOMAIN authentication :
       authentication[i].rawHeader = V_ar_bogus /\ authentication[i].result = R_unknown
  /\ \E i \in DOMAIN authentication :
       authentication[i].rawHeader = V_ar_upper /\ authentication[i].result = R_pass

\* C2: deduplication returns exactly one entry, taken from the input, for
\* each key of the input, and the entry of a key is unknown only if every
\* input entry of that key is unknown.
C2_OnePerKeyConcretePreferred ==
  pc # "start" =>
    /\ \A i \in DOMAIN results :
         \E j \in DOMAIN authentication : authKey(authentication[j]) = authKey(results[i])
    /\ \A j \in DOMAIN authentication :
         \E i \in DOMAIN results : results[i] = authentication[j]
    /\ \A j, k \in DOMAIN authentication :
         authKey(authentication[j]) = authKey(authentication[k]) => j = k
    /\ \A j \in DOMAIN authentication :
         authentication[j].result = R_unknown
         => \A i \in DOMAIN results :
              authKey(results[i]) = authKey(authentication[j])
              => results[i].result = R_unknown

\* C2's case: an unknown entry is followed by a concrete one of its key, and
\* a concrete one by an unknown one of its key.
C2_Witness ==
  /\ pc = "done"
  /\ \E i, j \in DOMAIN results :
       /\ i < j
       /\ authKey(results[i]) = authKey(results[j])
       /\ results[i].result = R_unknown
       /\ results[j].result # R_unknown
  /\ \E i, j \in DOMAIN results :
       /\ i < j
       /\ authKey(results[i]) = authKey(results[j])
       /\ results[i].result # R_unknown
       /\ results[j].result = R_unknown

\* C3: every input entry of the deduplication has an output entry of its
\* method and its domain, an absent domain matching an absent domain only.
C3_NeverMergedAcrossDomains ==
  pc # "start" =>
    \A i \in DOMAIN results :
      \E j \in DOMAIN authentication :
        /\ authentication[j].method = results[i].method
        /\ authentication[j].domain = results[i].domain

\* C4: an entry that comes from a DKIM-Signature header has the method dkim
\* and the result unknown, with the domain of d= and the selector of s=; a
\* message without an Authentication-Results header has no dkim entry with
\* a concrete result.
C4_DkimSignatureIsUnknown ==
  pc # "start" =>
    /\ \A i \in DOMAIN results :
         results[i].rawHeader \in ValuesOf(K_dkim_signature)
         => /\ results[i].method = M_dkim
            /\ results[i].result = R_unknown
    /\ \A v \in ValuesOf(K_dkim_signature) :
         \E i \in DOMAIN results : results[i].rawHeader = v
    /\ \A i \in DOMAIN results :
         /\ results[i].rawHeader = V_dkim_sig
            => /\ results[i].domain = Some(<<"a",".","c","o","m">>)
               /\ results[i].selector = Some(<<"s","e","l">>)
         /\ results[i].rawHeader = V_dkim_no_domain
            => /\ results[i].domain = None
               /\ results[i].selector = None
         /\ results[i].rawHeader = V_dkim_unknown
            => /\ results[i].domain = Some(<<"u","n","k","n","o","w","n">>)
               /\ results[i].selector = Some(<<"k">>)
    /\ KeyPositions(K_authentication_results) = {}
       => \A j \in DOMAIN authentication :
            authentication[j].method = M_dkim => authentication[j].result = R_unknown

\* C4's case: a message with a DKIM-Signature header and no
\* Authentication-Results header has been parsed into a dkim entry.
C4_Witness ==
  /\ pc = "done"
  /\ KeyPositions(K_dkim_signature) # {}
  /\ KeyPositions(K_authentication_results) = {}
  /\ \E j \in DOMAIN authentication :
       authentication[j].method = M_dkim /\ authentication[j].domain = Some(<<"a",".","c","o","m">>)

\* the three tokens of C5
HasThreeTokens(value) ==
  /\ Contains(value, <<"s","p","f","=","p","a","s","s">>)
  /\ Contains(value, <<"d","k","i","m","=","f","a","i","l"," ","h","e","a","d","e","r",".","d","=","e","x","a","m","p","l","e",".","c","o","m">>)
  /\ Contains(value, <<"d","m","a","r","c","=","p","a","s","s">>)

\* C5: an Authentication-Results value with the tokens spf=pass, dkim=fail
\* header.d=example.com and dmarc=pass yields three entries, spf pass, dkim
\* fail of example.com and dmarc pass.
C5_ThreeEntries ==
  pc # "start" =>
    \A v \in ValuesOf(K_authentication_results) :
      HasThreeTokens(v) =>
        LET es == SelectSeq(results, LAMBDA e : e.rawHeader = v)
            n  == Cardinality({i \in KeyPositions(K_authentication_results) :
                                 headers[i].value = v})
        IN  /\ Len(es) = 3 * n
            /\ \A i \in DOMAIN es :
                 \/ es[i].method = M_spf /\ es[i].result = R_pass
                 \/ /\ es[i].method = M_dkim
                    /\ es[i].result = R_fail
                    /\ es[i].domain = Some(<<"e","x","a","m","p","l","e",".","c","o","m">>)
                 \/ es[i].method = M_dmarc /\ es[i].result = R_pass

\* C6: the entry of the Received-SPF value
\* 'pass (envelope-from=bob@example.org; x)' is spf, pass, of the domain
\* example.org.
C6_EnvelopeFromDomain ==
  pc # "start" =>
    \A i \in DOMAIN results :
      results[i].rawHeader = V_spf_envelope
      => /\ results[i].method = M_spf
         /\ results[i].result = R_pass
         /\ results[i].domain = Some(<<"e","x","a","m","p","l","e",".","o","r","g">>)

\* C7: the chain has one hop for each Received header, whatever the case of
\* its key, in the order of the headers and with the header's value as
\* rawHeader; the hop of a header without from, by, with and timestamp has
\* none of the optional fields.
C7_OneHopPerReceivedHeader ==
  pc = "done" =>
    /\ Len(receivedChain) = Cardinality(KeyPositions(K_received))
    /\ \A n \in DOMAIN receivedChain :
         receivedChain[n].rawHeader
           = headers[NthPosition(KeyPositions(K_received), n)].value
    /\ \A n \in DOMAIN receivedChain :
         receivedChain[n].rawHeader = V_rc_bare
         => /\ receivedChain[n].from = None
            /\ receivedChain[n].by = None
            /\ receivedChain[n].with = None
            /\ receivedChain[n].timestamp = None
            /\ receivedChain[n].delay = None

\* C7's case: a chain of three hops, of headers whose keys differ in case,
\* with the hop of the header that has no field in the middle.
C7_Witness ==
  /\ pc = "done"
  /\ Len(receivedChain) = 3
  /\ receivedChain[2].rawHeader = V_rc_bare
  /\ \E i, j \in KeyPositions(K_received) : headers[i].key # headers[j].key

\* C8: but for the last, a hop has a delay exactly when it and the next hop
\* have timestamps, and the delay is then this hop's timestamp minus the next
\* hop's, negative or not; the last hop has no delay.
C8_DelayIsSignedDifference ==
  pc = "done" =>
    \A n \in DOMAIN receivedChain :
      /\ n < Len(receivedChain)
         => /\ IsSome(receivedChain[n].delay)
               <=> (IsSome(receivedChain[n].timestamp)
                      /\ IsSome(receivedChain[n + 1].timestamp))
            /\ IsSome(receivedChain[n].delay)
               => Get(receivedChain[n].delay)
                    = Get(receivedChain[n].timestamp)
                        - Get(receivedChain[n + 1].timestamp)
      /\ n = Len(receivedChain) => receivedChain[n].delay = None

\* C8's case: a chain of three hops with a negative delay, a hop without a
\* delay for want of a timestamp, and a last hop that has a timestamp.
C8_Witness ==
  /\ pc = "done"
  /\ Len(receivedChain) = 3
  /\ \E n \in 1..2 : IsSome(receivedChain[n].delay) /\ Get(receivedChain[n].delay) < 0
  /\ \E n \in 1..2 : receivedChain[n].delay = None
  /\ IsSome(receivedChain[3].timestamp)

\* the text after the last semicolon of a header, None without a semicolon
AfterLastSemicolon(header) ==
  LET semis == {p \in DOMAIN header : header[p] = ";"}
  IN  IF semis = {} THEN None
      ELSE Some(SubSeq(header, (CHOOSE p \in semis : \A q \in semis : q <= p) + 1,
                       Len(header)))

\* C9: the timestamp of a hop is the date-time that the text after the last
\* semicolon of its header spells, and is absent when that text spells none.
C9_TimestampAfterLastSemicolon ==
  pc = "done" =>
    \A n \in DOMAIN receivedChain :
      receivedChain[n].timestamp
        = IF IsSome(AfterLastSemicolon(receivedChain[n].rawHeader))
          THEN DateParse(trim(Get(AfterLastSemicolon(receivedChain[n].rawHeader))))
          ELSE None

\* C10: findAllHeaders returns the values of the headers whose key is the
\* given key but for case, all of them and in their order; findHeader returns
\* the first of them, or undefined when there is none.
C10_FindAllIsTheSubsequence ==
  IsSome(lookup) =>
    LET at == KeyPositions(Get(lookup).key)
    IN  /\ Len(Get(lookup).all) = Cardinality(at)
        /\ \A n \in DOMAIN Get(lookup).all :
             Get(lookup).all[n] = headers[NthPosition(at, n)].value
        /\ Get(lookup).first
             = IF at = {} THEN None ELSE Some(headers[NthPosition(at, 1)].value)

\* C10's case: a lookup that finds two headers whose keys are spelled
\* otherwise than the key looked up, after a header of another key.
C10_Witness ==
  /\ IsSome(lookup)
  /\ Len(Get(lookup).all) = 2
  /\ 1 \notin KeyPositions(Get(lookup).key)
  /\ \A i \in KeyPositions(Get(lookup).key) : headers[i].key # Get(lookup).key

\* the warnings of the last run with a title, and with a severity
Titled(t) == {i \in DOMAIN warnings : warnings[i].title = t}

OfSeverity(s) == {i \in DOMAIN warnings : warnings[i].severity = s}

\* the message has none of the four kinds of authentication header
NoAuthenticationHeaders ==
  \A k \in {K_authentication_results, K_received_spf, K_dkim_signature, K_arc_seal} :
    KeyPositions(k) = {}

\* C11: a run on a message without an Authentication-Results, Received-SPF,
\* DKIM-Signature or ARC-Seal header yields no authentication entry, exactly
\* one info finding for each of "No SPF Record Found", "No DKIM Signature
\* Found" and "No DMARC Record Found", and no error finding.
C11_NoAuthenticationHeaders ==
  (returned # <<>> /\ NoAuthenticationHeaders) =>
    /\ authentication = <<>>
    /\ returned[Len(returned)].email.authentication = <<>>
    /\ \A t \in {T_no_spf, T_no_dkim, T_no_dmarc} :
         /\ Cardinality(Titled(t)) = 1
         /\ Titled(t) \subseteq OfSeverity("info")
    /\ OfSeverity("error") = {}
    /\ returned[Len(returned)].warnings = warnings

\* C11's case: a run on a message of two headers, neither of them an
\* authentication header, that has two findings besides the three.
C11_Witness ==
  /\ returned # <<>>
  /\ NoAuthenticationHeaders
  /\ Len(headers) = 2
  /\ Len(warnings) = 5

\* the text after the first @ of an address, in lower case
DomainAfterAt(address) ==
  LET a1 == CHOOSE p \in DOMAIN address :
              address[p] = "@" /\ \A q \in 1..(p - 1) : address[q] # "@"
  IN  toLowerCase(SubSeq(address, a1 + 1, Len(address)))

\* C12: when the message has a From address and a Return-Path address, a run
\* yields one warning finding "Return-Path Domain Mismatch" if the text after
\* the @ of the one differs, in lower case, from that of the other, and no
\* such finding if it is the same.
C12_ReturnPathMismatch ==
  ( /\ returned # <<>>
    /\ IsSome(from) /\ Get(from) # <<>>
    /\ IsSome(returnPath)
    /\ "@" \in {Get(from)[1].address[p] : p \in DOMAIN Get(from)[1].address}
    /\ "@" \in {Get(returnPath)[p] : p \in DOMAIN Get(returnPath)} ) =>
    /\ Cardinality(Titled(T_return_path_mismatch))
         = IF DomainAfterAt(Get(from)[1].address) # DomainAfterAt(Get(returnPath))
           THEN 1 ELSE 0
    /\ Titled(T_return_path_mismatch) \subseteq OfSeverity("warning")

\* the title of the error finding of a method
FailedTitle(method) ==
  CASE method = M_spf   -> <<"S","P","F"," ","A","u","t","h","e","n","t","i","c","a","t","i","o","n"," ","F","a","i","l","e","d">>
    [] method = M_dkim  -> <<"D","K","I","M"," ","A","u","t","h","e","n","t","i","c","a","t","i","o","n"," ","F","a","i","l","e","d">>
    [] method = M_dmarc -> <<"D","M","A","R","C"," ","A","u","t","h","e","n","t","i","c","a","t","i","o","n"," ","F","a","i","l","e","d">>
    [] method = M_arc   -> <<"A","R","C"," ","A","u","t","h","e","n","t","i","c","a","t","i","o","n"," ","F","a","i","l","e","d">>

\* the titles of the findings that no authentication result stands behind
RuleTitles ==
  {T_no_spf, T_no_dkim, T_no_dmarc, T_return_path_mismatch, T_automated_sending}

\* the authentication entries with one of some results
WithResult(rs) == {i \in DOMAIN authentication : authentication[i].result \in rs}

\* C13: the findings of a run that stand for an authentication result are
\* as many as the results that are fail, permerror, softfail or temperror;
\* each fail or permerror has an error finding "<METHOD> Authentication
\* Failed" of its header, each softfail or temperror a warning finding of its
\* header; and the error findings are as many as the fail and permerror
\* results.
C13_OneFindingPerResult ==
  returned # <<>> =>
    /\ Cardinality({i \in DOMAIN warnings : warnings[i].title \notin RuleTitles})
         = Cardinality(WithResult({R_fail, R_permerror, R_softfail, R_temperror}))
    /\ Cardinality(OfSeverity("error")) = Cardinality(WithResult({R_fail, R_permerror}))
    /\ \A i \in WithResult({R_fail, R_permerror}) :
         Cardinality({j \in OfSeverity("error") :
                        /\ warnings[j].title = FailedTitle(authentication[i].method)
                        /\ warnings[j].relatedHeader = Some(authentication[i].rawHeader)})
           = Cardinality({k \in WithResult({R_fail, R_permerror}) :
                            /\ authentication[k].method = authentication[i].method
                            /\ authentication[k].rawHeader = authentication[i].rawHeader})
    /\ Cardinality({j \in OfSeverity("warning") : warnings[j].title \notin RuleTitles})
         = Cardinality(WithResult({R_softfail, R_temperror}))
    /\ \A i \in WithResult({R_softfail, R_temperror}) :
         \E j \in OfSeverity("warning") :
           warnings[j].relatedHeader = Some(authentication[i].rawHeader)

\* C13's case: a run with two error findings, of a fail and of a permerror,
\* and entries that have no finding.
C13_Witness ==
  /\ returned # <<>>
  /\ WithResult({R_fail}) # {}
  /\ WithResult({R_permerror}) # {}
  /\ WithResult({R_unknown, R_pass, R_none, R_neutral}) # {}
  /\ Cardinality(OfSeverity("error")) = 2

\* the title of the info finding for a method without an entry
MissingTitle(method) ==
  CASE method = M_spf   -> <<"N","o"," ","S","P","F"," ","R","e","c","o","r","d"," ","F","o","u","n","d">>
    [] method = M_dkim  -> <<"N","o"," ","D","K","I","M"," ","S","i","g","n","a","t","u","r","e"," ","F","o","u","n","d">>
    [] method = M_dmarc -> <<"N","o"," ","D","M","A","R","C"," ","R","e","c","o","r","d"," ","F","o","u","n","d">>

\* the authentication entries of a method
OfMethod(method) == {i \in DOMAIN authentication : authentication[i].method = method}

\* C14: for spf, dkim and dmarc a run yields the info finding "No ... Found"
\* of the method exactly when the authentication list has no entry of the
\* method, whatever the results of the entries; and no info finding stands
\* for arc.
C14_MissingMethodFindings ==
  returned # <<>> =>
    /\ \A m \in {M_spf, M_dkim, M_dmarc} :
         /\ Cardinality(Titled(MissingTitle(m))) = IF OfMethod(m) = {} THEN 1 ELSE 0
         /\ Titled(MissingTitle(m)) \subseteq OfSeverity("info")
    /\ \A i \in OfSeverity("info") :
         warnings[i].title \in {MissingTitle(M_spf), MissingTitle(M_dkim),
                                MissingTitle(M_dmarc), T_automated_sending}

\* C14's case: a run whose only dkim entry is unknown has no finding for
\* dkim, one for spf, and none for arc though there is no arc entry.
C14_Witness ==
  /\ returned # <<>>
  /\ OfMethod(M_dkim) # {}
  /\ \A i \in OfMethod(M_dkim) : authentication[i].result = R_unknown
  /\ OfMethod(M_spf) = {}
  /\ OfMethod(M_arc) = {}
  /\ Titled(T_no_spf) # {}
  /\ Titled(T_no_dkim) = {}

\* a value has "php" or "script" in it, in any case
ScriptLike(value) ==
  Contains(toLowerCase(value), <<"p","h","p">>) \/ Contains(toLowerCase(value), <<"s","c","r","i","p","t">>)

\* C15: a run yields the info finding "Automated Sending Detected" when the
\* message has an X-Mailer header whose value is script-like, and does not
\* when no X-Mailer header has such a value.
C15_AutomatedSending ==
  returned # <<>> =>
    /\ (\E i \in KeyPositions(K_x_mailer) : ScriptLike(headers[i].value))
         <=> Titled(T_automated_sending) # {}
    /\ Titled(T_automated_sending) \subseteq OfSeverity("info")

\* C16: each Received-SPF, DKIM-Signature and ARC-Seal header of the message
\* has exactly one entry, of its method and with its value as rawHeader, in
\* the list handed to the deduplication.
C16_NoRecordDropped ==
  returned # <<>> =>
    \A km \in { <<K_received_spf, M_spf>>, <<K_dkim_signature, M_dkim>>,
                <<K_arc_seal, M_arc>> } :
      \A v \in ValuesOf(km[1]) :
        Cardinality({i \in DOMAIN results :
                       results[i].method = km[2] /\ results[i].rawHeader = v})
          = Cardinality({p \in KeyPositions(km[1]) : headers[p].value = v})

\* the addresses an address field holds, in its order: a string is an
\* address, an object has an address or not
AddressesOf(field) ==
  LET One(f) == IF f.kind = "string"
                THEN IF f.value = <<>> THEN <<>>
                     ELSE << [name |-> None, address |-> f.value] >>
                ELSE IF IsSome(f.address) /\ Get(f.address) # <<>>
                     THEN << [name |-> f.name, address |-> Get(f.address)] >>
                     ELSE <<>>
  IN  CASE field.kind = "absent" -> <<>>
        [] field.kind = "list"   -> Flatten([i \in DOMAIN field.items |-> One(field.items[i])])
        [] OTHER                 -> One(field)

\* C18: parseAddresses returns undefined for a field that is absent or that
\* no address can be parsed from, and otherwise the list, not empty, of the
\* addresses of the field in their order, a string s as {address: s}.
C18_AddressesOrUndefined ==
  returned # <<>> =>
    from = IF AddressesOf(parsedFrom) = <<>> THEN None ELSE Some(AddressesOf(parsedFrom))

\* the multiset of the warnings of a list
BagOfWarnings(ws) ==
  [w \in {ws[i] : i \in DOMAIN ws} |-> Cardinality({i \in DOMAIN ws : ws[i] = w})]

----------------------------------------------------------------------------
(* The page.                                                               *)

\* the file of the page's last step
LastFile == Get(Get(last).file)

\* C17: when parseEmlFile rejects for an accepted file, handleFileAccepted
\* ends with no analysis, the error 'Failed to parse the EML file. Please
\* ensure it is a valid email file.' and isProcessing false; when it
\* resolves, the analysis is the result it returned.
C17_DecodeFailureIsFatal ==
  IsSome(last) =>
    /\ Get(last).event = "unparsed"
       => /\ analysis = None
          /\ error = Some("Failed to parse the EML file. Please ensure it is a valid email file.")
          /\ isProcessing = FALSE
    /\ Get(last).event = "parsed"
       => \E parseTime \in ParseTimes :
            analysis = Some(parseEmlFile(LastFile.content.parsed, <<>>, parseTime))

\* C17's case: parseEmlFile has just rejected for a file that was accepted
\* while the file of another handler, whose parse resolves, is still being
\* parsed.
C17_Witness ==
  /\ IsSome(last)
  /\ Get(last).event = "unparsed"
  /\ ~LastFile.content.decodable
  /\ \E i \in DOMAIN pending :
       pending[i].stage = "parsing" /\ pending[i].file.content.decodable

\* the name ends in the extension, letter for letter
NameEndsIn(name, ext) ==
  /\ Len(name) >= Len(ext)
  /\ \A k \in 1..Len(ext) : name[Len(name) - Len(ext) + k] = ext[k]

\* the two checks of the boundary, the extension whatever its case
PassesBoundary(file) ==
  /\ NameEndsIn(toLowerCase(file.name), <<".","e","m","l">>)
  /\ file.size <= 50 * 1024 * 1024

\* the two checks of the boundary, the extension in lower case only
PassesBoundaryLiteral(file) ==
  /\ NameEndsIn(file.name, <<".","e","m","l">>)
  /\ file.size <= 50 * 1024 * 1024

\* C19, amended: a file is read and handed to onFileAccepted only if its
\* name ends in '.eml', whatever the case of the letters, and its size is at
\* most 50 * 1024 * 1024 bytes; a file that fails either check is reported
\* through onError and is not read; a file that passes both is read whatever
\* its MIME type.
C19_UploadBoundary ==
  /\ \A i \in DOMAIN pending : PassesBoundary(pending[i].file)
  /\ IsSome(last) =>
       /\ Get(last).event \in {"reading", "accepted"} => PassesBoundary(LastFile)
       /\ Get(last).event = "rejected"
          => /\ ~PassesBoundary(LastFile)
             /\ IsSome(error)

\* C19's case: a file whose name has the extension in upper case and whose
\* size is the bound itself has been read and handed to onFileAccepted.
C19_Witness ==
  /\ IsSome(last)
  /\ Get(last).event = "accepted"
  /\ LastFile.size = 50 * 1024 * 1024
  /\ ~NameEndsIn(LastFile.name, <<".","e","m","l">>)
  /\ filename = LastFile.name

\* C19 as stated: a file is read and handed to onFileAccepted only if its
\* name ends in '.eml' and its size is at most 50 * 1024 * 1024 bytes; a
\* file that fails either check is reported through onError and is not read.
C19_UploadBoundaryLiteral ==
  /\ \A i \in DOMAIN pending : PassesBoundaryLiteral(pending[i].file)
  /\ IsSome(last) =>
       /\ Get(last).event \in {"reading", "accepted"} => PassesBoundaryLiteral(LastFile)
       /\ Get(last).event = "rejected"
          => /\ ~PassesBoundaryLiteral(LastFile)
             /\ IsSome(error)

----------------------------------------------------------------------------
(* Conflicting and overlapping authentication headers.                     *)

\* two entries are of the same method and the same domain
SameMethodAndDomain(a, b) == a.method = b.method /\ a.domain = b.domain

\* an entry comes from an Authentication-Results header
FromAuthenticationResults(e) == e.rawHeader \in ValuesOf(K_authentication_results)

\* C21: of the entries of one method and domain whose concrete results
\* conflict, the deduplication keeps the concrete one that comes first in
\* the list, whatever unknown entries precede it and whatever follows it;
\* and a concrete entry of an Authentication-Results header is not replaced
\* by one of a Received-SPF, DKIM-Signature or ARC-Seal header.
C21_FirstConcreteWins ==
  pc # "start" =>
    /\ \A i \in DOMAIN results :
         ( /\ results[i].result # R_unknown
           /\ \A j \in 1..(i - 1) :
                SameMethodAndDomain(results[j], results[i])
                => results[j].result = R_unknown
           /\ \E j \in DOMAIN results :
                /\ SameMethodAndDomain(results[j], results[i])
                /\ results[j].result \notin {R_unknown, results[i].result} )
         => \E k \in DOMAIN authentication : authentication[k] = results[i]
    /\ \A k \in DOMAIN authentication :
         (\E i \in DOMAIN results :
            /\ FromAuthenticationResults(results[i])
            /\ results[i].result # R_unknown
            /\ SameMethodAndDomain(results[i], authentication[k]))
         => FromAuthenticationResults(authentication[k])

\* the token <method>=<result> occurs in a header value: the method in any
\* case at the start of a word, the = sign and a word character
TokenOccurs(value, method) ==
  \E p \in DOMAIN value :
    /\ MatchLit(value, p, method \o <<"=">>)
    /\ p + Len(method) + 1 <= Len(value)
    /\ In(value[p + Len(method) + 1], Word)
    /\ (p = 1 \/ ~In(value[p - 1], Word))

\* C22: before deduplication, each Authentication-Results header has one
\* entry for each of spf, dkim, dmarc and arc whose result token occurs in
\* its value, however often, and none for the others; each entry has the
\* value of the header as rawHeader.
C22_OneEntryPerMethodToken ==
  pc # "start" =>
    \A v \in ValuesOf(K_authentication_results) :
      \A method \in {M_spf, M_dkim, M_dmarc, M_arc} :
        Cardinality({i \in DOMAIN results :
                       results[i].rawHeader = v /\ results[i].method = method})
          = IF TokenOccurs(v, method)
            THEN Cardinality({p \in KeyPositions(K_authentication_results) :
                                headers[p].value = v})
            ELSE 0

\* the value of a fragment of a Received-SPF header: what follows the
\* fragment's name up to a space or a semicolon, None without the fragment
FragmentValue(value, name) ==
  LET at == {p \in DOMAIN value :
               /\ MatchLit(value, p, name)
               /\ p + Len(name) <= Len(value)
               /\ value[p + Len(name)] \notin SpaceChars \cup {";"}}
      p0 == CHOOSE p \in at : \A q \in at : p <= q
      rest == SubSeq(value, p0 + Len(name), Len(value))
      stop == {k \in DOMAIN rest : rest[k] \in SpaceChars \cup {";"}}
  IN  IF at = {} THEN None
      ELSE IF stop = {} THEN Some(rest)
           ELSE Some(SubSeq(rest, 1, (CHOOSE k \in stop : \A q \in stop : k <= q) - 1))

\* the domain of a Received-SPF header by the priority of its fragments
DomainByPriority(value) ==
  IF IsSome(FragmentValue(value, <<"e","n","v","e","l","o","p","e","-","f","r","o","m","=">>))
  THEN FragmentValue(value, <<"e","n","v","e","l","o","p","e","-","f","r","o","m","=">>)
  ELSE IF IsSome(FragmentValue(value, <<"i","d","e","n","t","i","t","y","=">>))
       THEN FragmentValue(value, <<"i","d","e","n","t","i","t","y","=">>)
       ELSE FragmentValue(value, <<"s","e","n","d","e","r"," ">>)

\* C23: the entry of a Received-SPF header has the domain of envelope-from=
\* when the header has that fragment, else of identity=, else of 'sender ',
\* wherever the fragments stand; a header with none of them has an entry all
\* the same, without a domain.
C23_SpfDomainByPriority ==
  pc # "start" =>
    \A v \in ValuesOf(K_received_spf) :
      /\ \A i \in DOMAIN results :
           (results[i].rawHeader = v /\ results[i].method = M_spf)
           => results[i].domain = DomainByPriority(v)
      /\ DomainByPriority(v) = None
         => \E i \in DOMAIN results :
              /\ results[i].rawHeader = v
              /\ results[i].method = M_spf
              /\ results[i].domain = None

\* a domain without a leading @
WithoutLeadingAt(domain) ==
  IF domain # <<>> /\ domain[1] = "@" THEN SubSeq(domain, 2, Len(domain)) ELSE domain

\* the value of the header.d= or header.i= sub-token of a header value,
\* without a leading @; None without such a sub-token
SubTokenDomain(value) ==
  LET d == FragmentValue(value, <<"h","e","a","d","e","r",".","d","=">>)
      i == FragmentValue(value, <<"h","e","a","d","e","r",".","i","=">>)
  IN  IF IsSome(d) THEN Some(WithoutLeadingAt(Get(d)))
      ELSE IF IsSome(i) THEN Some(WithoutLeadingAt(Get(i)))
           ELSE None

\* C29: the dkim entry of an Authentication-Results header with a header.d=
\* or header.i= sub-token has the value of the sub-token, without a leading
\* @, as its domain, wherever the sub-token stands after the result; and the
\* message has one dkim entry for a domain, with a concrete result when a
\* header gives one for that domain.
C29_DkimDomainOfSubToken ==
  pc # "start" =>
    /\ \A i \in DOMAIN results :
         ( /\ results[i].method = M_dkim
           /\ FromAuthenticationResults(results[i])
           /\ IsSome(SubTokenDomain(results[i].rawHeader)) )
         => results[i].domain = SubTokenDomain(results[i].rawHeader)
    /\ \A j, k \in DOMAIN authentication :
         ( /\ authentication[j].method = M_dkim
           /\ authentication[k].method = M_dkim
           /\ IsSome(authentication[j].domain)
           /\ IsSome(authentication[k].domain)
           /\ WithoutLeadingAt(Get(authentication[j].domain))
                = WithoutLeadingAt(Get(authentication[k].domain)) )
         => j = k
    /\ \A j \in DOMAIN authentication :
         ( /\ authentication[j].method = M_dkim
           /\ authentication[j].result = R_unknown
           /\ IsSome(authentication[j].domain) )
         => \A i \in DOMAIN results :
              ( /\ results[i].method = M_dkim
                /\ IsSome(SubTokenDomain(results[i].rawHeader))
                /\ FromAuthenticationResults(results[i])
                /\ SubTokenDomain(results[i].rawHeader)
                     = Some(WithoutLeadingAt(Get(authentication[j].domain))) )
              => results[i].result = R_unknown

----------------------------------------------------------------------------
(* The page, over time.                                                    *)

\* C24: once handleFileAccepted has set isProcessing, isProcessing becomes
\* false again, whether parseEmlFile resolves or rejects; and while
\* isProcessing is true no drop on the dropzone starts the read of a file.
C24_ProcessingEnds ==
  /\ isProcessing ~> ~isProcessing
  /\ [](isProcessing => ~ENABLED HandleDrop)

\* C24's case: a file has been accepted and is being parsed, isProcessing
\* is true, the dropzone is shown and a file chosen in the dialog would be
\* read.
C24_Witness ==
  /\ isProcessing
  /\ analysis = None
  /\ IsSome(last)
  /\ Get(last).event = "accepted"
  /\ ENABLED HandleInputChange


\* the files handleFileAccepted can be called with: no two have one name
AcceptedFiles == {f \in UploadFiles : validateFile(f) = None}

\* the analysis is what parseEmlFile returns for the content of the file
ComputedFrom(file) ==
  /\ file.content.decodable
  /\ \E parseTime \in ParseTimes :
       analysis = Some(parseEmlFile(file.content.parsed, <<>>, parseTime))

\* C25: whenever there is an analysis, filename is the name of the file the
\* analysis was computed from, and that file is the one accepted most
\* recently, the one handleFileAccepted set filename for.
C25_FilenameOfAnalysis ==
  IsSome(analysis) =>
    \E file \in AcceptedFiles :
      /\ ComputedFrom(file)
      /\ filename = file.name

\* C26: from handleReset until a file accepted after it has been parsed,
\* there is no analysis, the filename is empty and no parse has left its
\* error; filename is empty exactly while no file has been accepted since
\* the reset, so a parse that settles then was started before it.
C26_ResetHolds ==
  filename = <<>> =>
    /\ analysis = None
    /\ error # Some("Failed to parse the EML file. Please ensure it is a valid email file.")

\* C27: the routing panel renders a delay indicator for every hop that has a
\* computed delay, n-1 of them for a chain of n >= 2 hops that all have
\* timestamps, and the indicator of a negative delay reads 'time skew'.
C27_DelayIndicators ==
  pc = "done" =>
    LET shown == RoutingPanel_delayIndicators(receivedChain)
        n == Len(receivedChain)
    IN  /\ \A i \in 1..n :
             IsSome(receivedChain[i].delay)
               => /\ IsSome(shown[i])
                  /\ Get(receivedChain[i].delay) < 0
                       => Get(shown[i]).text = <<"t","i","m","e"," ","s","k","e","w">>
        /\ (n >= 2 /\ \A i \in 1..n : IsSome(receivedChain[i].timestamp))
             => Cardinality({i \in 1..n : IsSome(shown[i])}) = n - 1

\* C28: for every analysis parseEmlFile returns, the overall status of
\* email.authentication is 'fail' exactly when the warnings hold a finding
\* of severity error, and it is 'pass' only when a result is pass and none
\* is fail, permerror or softfail.
C28_FailureIndicatorsAgree ==
  \A k \in DOMAIN returned :
    LET verdicts == returned[k].email.authentication
        status == getOverallStatus(verdicts)
    IN  /\ (status = "fail") <=> hasErrors(returned[k].warnings)
        /\ status = "pass"
             => /\ \E i \in DOMAIN verdicts : verdicts[i].result = R_pass
                /\ \A i \in DOMAIN verdicts :
                     verdicts[i].result \notin {R_fail, R_permerror, R_softfail}

\* C28's case: parseEmlFile has returned, for the second time, an analysis
\* whose status is fail, with a permerror among the results and a finding of
\* severity error among the warnings.
C28_Witness ==
  /\ Len(returned) = 2
  /\ getOverallStatus(returned[2].email.authentication) = "fail"
  /\ hasErrors(returned[2].warnings)
  /\ \E i \in DOMAIN returned[2].email.authentication :
       returned[2].email.authentication[i].result = R_permerror

====
